---- MODULE Spec2Model ----
(***************************************************************************)
(* A model of go-locate's search engine (internal/search/search.go):       *)
(* New, Search (main goroutine, collector goroutine, one searchWorker      *)
(* goroutine per root), the filepath.Walk callback with its exclusion,     *)
(* depth and name checks, and the pure helpers shouldExclude, matches and  *)
(* fuzzyMatch.                                                             *)
(*                                                                         *)
(* Go strings are modelled by TLA+ strings of printable ASCII characters   *)
(* (TLC evaluates Len, SubSeq, Head, Tail and \o on strings); where the    *)
(* code looks at bytes and runes (fuzzyMatch) a string is the tuple of its *)
(* byte values.                                                            *)
(***************************************************************************)
EXTENDS Integers, Sequences, FiniteSets, TLC

VARIABLES
    given,      \* history: the Config as the caller built it, before New
    config,     \* the caller's *Config (NilConfig when the pointer is nil)
    env,        \* the machine: runtime.NumCPU(), runtime.GOOS, os.UserHomeDir()
    searcher,   \* the *Searcher New returned (NoSearcher before / on error)
    newErr,     \* the error New returned
    pc,         \* where the goroutine calling New and Search stands
    next,       \* Search: index of the next root of the range loop
    ch,         \* s.results: the buffered values, oldest first
    chClosed,   \* s.results has been closed
    done,       \* s.done has been closed
    wg,         \* s.wg's counter
    results,    \* Search's local slice, appended to by the collector
    mu,         \* Search's local mutex: TRUE while the collector holds it
    coll,       \* the collector goroutine: its position and the value it holds
    workers,    \* the searchWorker goroutines, one per spawned root
    ret,        \* what Search returned: [results, err]
    recvd,      \* history: every value the collector received, in order
    run,        \* number of the Search run in progress (a fresh Searcher each)
    firstSet,   \* history: the set of paths the first run returned
    probe       \* a direct call of a pure helper: its arguments and result

vars == <<given, config, env, searcher, newErr, pc, next, ch, chClosed, done, wg,
          results, mu, coll, workers, ret, recvd, run, firstSet, probe>>

-----------------------------------------------------------------------------
(* Bounds of the model.                                                    *)

\* The capacity of the results channel. The program's capacity is
\* defaultResultsBufferSize = 100 (search.go:17); the model is checked with a
\* small capacity so that a tree of a few entries fills the channel.
ChanCap == 2

\* The largest MaxResults a configuration of the model asks for.
MaxMaxResults == 5

\* The largest number of logical CPUs runtime.NumCPU() reports.
MaxCPU == 2

\* The longest rune string handed to fuzzyMatch in a direct call.
MaxRunes == 2

\* The longest generated path handed to shouldExclude in a direct call.
MaxPathLen == 3

\* The largest depth limit of a search of the model
MaxDepth == 2

\* The longest Include list of a direct call of getSearchRoots
MaxInclude == 2

-----------------------------------------------------------------------------
(* Strings.                                                                *)

Min(a, b) == IF a < b THEN a ELSE b

Range(s) == {s[i] : i \in 1..Len(s)}

\* s[i-1] as a one-character string
At(s, i) == SubSeq(s, i, i)

\* The printable ASCII characters in code order: 32 (space) to 95 (_), and
\* 97 (a) to 126 (~). Character 96 cannot be written in a TLA+ string and no
\* string of the model holds it.
AsciiLow == " !\"#$%&'()*+,-./0123456789:;<=>?@ABCDEFGHIJKLMNOPQRSTUVWXYZ[\\]^_"

AsciiHigh == "abcdefghijklmnopqrstuvwxyz{|}~"

\* The byte value of a one-character string.
Ord(c) ==
    IF \E i \in 1..Len(AsciiLow) : At(AsciiLow, i) = c
    THEN 31 + CHOOSE i \in 1..Len(AsciiLow) : At(AsciiLow, i) = c
    ELSE 96 + CHOOSE i \in 1..Len(AsciiHigh) : At(AsciiHigh, i) = c

\* The one-character string of a byte value.
Chr(n) == IF n <= 95 THEN At(AsciiLow, n - 31) ELSE At(AsciiHigh, n - 96)

\* []byte(s)
Bytes(s) == [i \in 1..Len(s) |-> Ord(At(s, i))]

\* strings.HasPrefix
HasPrefix(s, prefix) ==
    Len(s) >= Len(prefix) /\ SubSeq(s, 1, Len(prefix)) = prefix

HasSuffix(s, suffix) ==
    Len(s) >= Len(suffix) /\ SubSeq(s, Len(s) - Len(suffix) + 1, Len(s)) = suffix

\* strings.TrimPrefix
TrimPrefix(s, prefix) ==
    IF HasPrefix(s, prefix) THEN SubSeq(s, Len(prefix) + 1, Len(s)) ELSE s

\* strings.Index(s, substr) >= 0, scanning the start positions left to right
ContainsFrom[s \in STRING, substr \in STRING, i \in Nat] ==
    IF i + Len(substr) > Len(s) THEN FALSE
    ELSE IF SubSeq(s, i + 1, i + Len(substr)) = substr THEN TRUE
    ELSE ContainsFrom[s, substr, i + 1]

\* strings.Contains
Contains(s, substr) == ContainsFrom[s, substr, 0]

\* strings.Count(s, sep) for a one-character sep
Count(s, sep) == Cardinality({i \in 1..Len(s) : At(s, i) = sep})

\* unicode.ToLower on an ASCII character
LowerChar(c) ==
    IF Ord(c) >= 65 /\ Ord(c) <= 90 THEN Chr(Ord(c) + 32) ELSE c

\* strings.ToLower
ToLowerFrom[s \in STRING] ==
    IF s = "" THEN "" ELSE LowerChar(Head(s)) \o ToLowerFrom[Tail(s)]

ToLower(s) == ToLowerFrom[s]

\* strings.EqualFold on ASCII strings
EqualFold(s, t) == ToLower(s) = ToLower(t)

\* os.PathSeparator
PathSeparator == "/"

\* strings.LastIndex(s, c) for a one-character c, 1-based; 0 when absent
LastIndex(s, c) ==
    LET I == {i \in 1..Len(s) : At(s, i) = c}
    IN  IF I = {} THEN 0 ELSE CHOOSE i \in I : \A j \in I : j <= i

\* s without its trailing path separators
StripTrailingSep[s \in STRING] ==
    IF s # "" /\ HasSuffix(s, PathSeparator)
    THEN StripTrailingSep[SubSeq(s, 1, Len(s) - 1)]
    ELSE s

\* filepath.Base
Base(path) ==
    IF path = "" THEN "."
    ELSE LET p == StripTrailingSep[path]
         IN  IF p = "" THEN PathSeparator
             ELSE SubSeq(p, LastIndex(p, PathSeparator) + 1, Len(p))

\* filepath.Ext: the suffix of the last element from its last dot
Ext(path) ==
    LET b == SubSeq(path, LastIndex(path, PathSeparator) + 1, Len(path))
        d == LastIndex(b, ".")
    IN  IF d = 0 THEN "" ELSE SubSeq(b, d, Len(b))

\* The elements of a path between its separators, the empty ones dropped.
Split[path \in STRING] ==
    IF path = "" THEN <<>>
    ELSE LET I == {i \in 1..Len(path) : At(path, i) = PathSeparator}
             k == IF I = {} THEN Len(path) + 1
                  ELSE CHOOSE i \in I : \A j \in I : i <= j
             rest == Split[SubSeq(path, k + 1, Len(path))]
         IN  IF k = 1 THEN rest ELSE <<SubSeq(path, 1, k - 1)>> \o rest

\* The pass of filepath.Clean over the elements: a dot element is dropped, a
\* dot-dot element removes the element before it (and is kept when there is
\* none and the path is not rooted).
CleanElems[elems \in Seq(STRING), out \in Seq(STRING), rooted \in BOOLEAN] ==
    IF elems = <<>> THEN out
    ELSE LET e == Head(elems) IN
         IF e = "." THEN CleanElems[Tail(elems), out, rooted]
         ELSE IF e = ".." THEN
              IF out # <<>> /\ out[Len(out)] # ".."
              THEN CleanElems[Tail(elems), SubSeq(out, 1, Len(out) - 1), rooted]
              ELSE IF rooted THEN CleanElems[Tail(elems), out, rooted]
              ELSE CleanElems[Tail(elems), Append(out, e), rooted]
         ELSE CleanElems[Tail(elems), Append(out, e), rooted]

JoinElems[elems \in Seq(STRING)] ==
    IF elems = <<>> THEN ""
    ELSE IF Len(elems) = 1 THEN elems[1]
    ELSE elems[1] \o PathSeparator \o JoinElems[Tail(elems)]

\* filepath.Clean
Clean(path) ==
    LET rooted == HasPrefix(path, PathSeparator)
        body == JoinElems[CleanElems[Split[path], <<>>, rooted]]
        out == IF rooted THEN PathSeparator \o body ELSE body
    IN  IF out = "" THEN "." ELSE out

\* filepath.Join(dir, name)
Join(dir, name) == Clean(dir \o PathSeparator \o name)

-----------------------------------------------------------------------------
(* filepath.Match: shell patterns with *, ?, [class] and \-escapes. A star *)
(* or a question mark never matches a path separator; a malformed pattern  *)
(* is an error (ErrBadPattern) and matches nothing.                        *)

\* getEsc: one (possibly escaped) character of a class: [ok, c, rest]
GetEsc(s) ==
    IF s = "" \/ Head(s) = "-" \/ Head(s) = "]" THEN [ok |-> FALSE, c |-> "", rest |-> ""]
    ELSE LET t == IF Head(s) = "\\" THEN Tail(s) ELSE s IN
         IF t = "" \/ Tail(t) = "" THEN [ok |-> FALSE, c |-> "", rest |-> ""]
         ELSE [ok |-> TRUE, c |-> Head(t), rest |-> Tail(t)]

\* The ranges of a character class, s being the text after the bracket (and
\* after the negation sign): [ok, ranges, rest]
ClassItems[s \in STRING, nrange \in Nat, acc \in SUBSET (Nat \X Nat)] ==
    IF s # "" /\ Head(s) = "]" /\ nrange > 0
    THEN [ok |-> TRUE, ranges |-> acc, rest |-> Tail(s)]
    ELSE LET lo == GetEsc(s) IN
         IF ~lo.ok THEN [ok |-> FALSE, ranges |-> {}, rest |-> ""]
         ELSE IF Head(lo.rest) = "-"
         THEN LET hi == GetEsc(Tail(lo.rest)) IN
              IF ~hi.ok THEN [ok |-> FALSE, ranges |-> {}, rest |-> ""]
              ELSE ClassItems[hi.rest, nrange + 1,
                              acc \cup {<<Ord(lo.c), Ord(hi.c)>>}]
         ELSE ClassItems[lo.rest, nrange + 1, acc \cup {<<Ord(lo.c), Ord(lo.c)>>}]

\* A character class, s being the text after the opening bracket
ParseClass(s) ==
    LET neg == s # "" /\ Head(s) = "^"
        items == ClassItems[IF neg THEN Tail(s) ELSE s, 0, {}]
    IN  [ok |-> items.ok, neg |-> neg, ranges |-> items.ranges, rest |-> items.rest]

\* The pattern is malformed
BadPattern[pattern \in STRING] ==
    IF pattern = "" THEN FALSE
    ELSE IF Head(pattern) = "\\"
    THEN Tail(pattern) = "" \/ BadPattern[Tail(Tail(pattern))]
    ELSE IF Head(pattern) = "["
    THEN LET cl == ParseClass(Tail(pattern)) IN ~cl.ok \/ BadPattern[cl.rest]
    ELSE BadPattern[Tail(pattern)]

\* A well-formed pattern matches the whole of name
Glob[pattern \in STRING, name \in STRING] ==
    IF pattern = "" THEN name = ""
    ELSE LET h == Head(pattern) IN
         IF h = "*"
         THEN \E k \in 0..Len(name) :
                 /\ ~Contains(SubSeq(name, 1, k), PathSeparator)
                 /\ Glob[Tail(pattern), SubSeq(name, k + 1, Len(name))]
         ELSE IF h = "?"
         THEN name # "" /\ Head(name) # PathSeparator /\ Glob[Tail(pattern), Tail(name)]
         ELSE IF h = "\\"
         THEN name # "" /\ Head(name) = Head(Tail(pattern))
              /\ Glob[Tail(Tail(pattern)), Tail(name)]
         ELSE IF h = "["
         THEN LET cl == ParseClass(Tail(pattern)) IN
              /\ name # ""
              /\ (\E r \in cl.ranges : r[1] <= Ord(Head(name)) /\ Ord(Head(name)) <= r[2])
                    # cl.neg
              /\ Glob[cl.rest, Tail(name)]
         ELSE name # "" /\ Head(name) = h /\ Glob[Tail(pattern), Tail(name)]

\* filepath.Match(pattern, name): (matched, err)
Match(pattern, name) ==
    IF BadPattern[pattern] THEN [matched |-> FALSE, err |-> TRUE]
    ELSE [matched |-> Glob[pattern, name], err |-> FALSE]

-----------------------------------------------------------------------------
(* fuzzyMatch, on the bytes of its arguments.                              *)

\* utf8.RuneError
RuneError == 65533

\* A continuation byte of UTF-8
IsCont(b) == b >= 128 /\ b <= 191

\* The runes that ranging over a Go string yields: an ASCII byte is its own
\* rune, a two-byte sequence decodes to its code point, and any byte that
\* starts no valid sequence yields RuneError and is skipped alone. (Longer
\* sequences are outside the model: its runes are below U+0800.)
DecodeRunes[bytes \in Seq(Nat)] ==
    IF bytes = <<>> THEN <<>>
    ELSE LET b == Head(bytes) IN
         IF b < 128 THEN <<b>> \o DecodeRunes[Tail(bytes)]
         ELSE IF b >= 194 /\ b <= 223 /\ Len(bytes) >= 2 /\ IsCont(bytes[2])
         THEN <<(b - 192) * 64 + (bytes[2] - 128)>> \o DecodeRunes[Tail(Tail(bytes))]
         ELSE <<RuneError>> \o DecodeRunes[Tail(bytes)]

\* The loops of fuzzyMatch: for each rune of the pattern, advance textIdx
\* over the BYTES of text to the first byte equal to the rune, and past it.
fuzzyScan[text \in Seq(Nat), runes \in Seq(Nat), textIdx \in Nat] ==
    IF runes = <<>> THEN TRUE
    ELSE LET hits == {i \in textIdx..(Len(text) - 1) : text[i + 1] = Head(runes)} IN
         IF hits = {} THEN FALSE
         ELSE fuzzyScan[text, Tail(runes),
                        (CHOOSE i \in hits : \A j \in hits : i <= j) + 1]

fuzzyMatch(text, pattern) ==
    IF pattern = <<>> THEN TRUE
    ELSE IF text = <<>> THEN FALSE
    ELSE fuzzyScan[text, DecodeRunes[pattern], 0]

-----------------------------------------------------------------------------
(* The filesystem the searches run on: a fixed tree, keyed by absolute     *)
(* path. A directory lists the names of its entries in the sorted order    *)
(* readDirNames returns them in.                                           *)

Dir(names) ==
    [kind |-> "dir", names |-> names, readable |-> TRUE, target |-> "",
     size |-> 4, modTime |-> 1]

\* A directory whose entries cannot be listed (permission denied)
PrivateDir(names) == [Dir(names) EXCEPT !.readable = FALSE]

File(size) ==
    [kind |-> "file", names |-> <<>>, readable |-> TRUE, target |-> "",
     size |-> size, modTime |-> 2]

Symlink(target) ==
    [kind |-> "symlink", names |-> <<>>, readable |-> TRUE, target |-> target,
     size |-> 1, modTime |-> 3]

\* The working directory of the process
Cwd == "/w"

\* /w/a is the tree of the pruning scenario; /w/b holds an upper-case name,
\* a name whose lstat fails (gone.go is listed but is no entry), a symbolic
\* link back to its own directory, and a directory that cannot be read.
Tree ==
       ("/" :> Dir(<<"tmp", "w">>))
    @@ ("/tmp" :> Dir(<<"t.go">>))
    @@ ("/tmp/t.go" :> File(0))
    @@ ("/w" :> Dir(<<"a", "b">>))
    @@ ("/w/a" :> Dir(<<"config.yaml", "main.go", "node_modules">>))
    @@ ("/w/a/config.yaml" :> File(3))
    @@ ("/w/a/main.go" :> File(2))
    @@ ("/w/a/node_modules" :> Dir(<<"x.go">>))
    @@ ("/w/a/node_modules/x.go" :> File(1))
    @@ ("/w/b" :> Dir(<<"Lib.GO", "gone.go", "loop", "priv">>))
    @@ ("/w/b/Lib.GO" :> File(5))
    @@ ("/w/b/loop" :> Symlink("/w/b"))
    @@ ("/w/b/priv" :> PrivateDir(<<"p.go">>))
    @@ ("/w/b/priv/p.go" :> File(6))

\* The absolute path a name refers to
Abs(name) ==
    IF HasPrefix(name, PathSeparator) THEN Clean(name)
    ELSE Clean(Cwd \o PathSeparator \o name)

NoInfo == [IsDir |-> FALSE, Size |-> 0, ModTime |-> 0, Mode |-> "nil"]

FileInfo(node) ==
    [IsDir |-> node.kind = "dir", Size |-> node.size, ModTime |-> node.modTime,
     Mode |-> CASE node.kind = "dir" -> "d"
                [] node.kind = "symlink" -> "L"
                [] OTHER -> "-"]

\* os.Lstat(name): (info, err). A name ending in a separator names what it
\* resolves to, which must be a directory.
Lstat(name) ==
    LET abs == Abs(name)
        slash == HasSuffix(name, PathSeparator) /\ abs # PathSeparator
    IN  IF abs \notin DOMAIN Tree THEN [err |-> TRUE, info |-> NoInfo]
        ELSE LET node == IF slash /\ Tree[abs].kind = "symlink"
                         THEN Tree[Tree[abs].target] ELSE Tree[abs]
             IN  IF slash /\ node.kind # "dir" THEN [err |-> TRUE, info |-> NoInfo]
                 ELSE [err |-> FALSE, info |-> FileInfo(node)]

\* Variant: the listing of a directory begins with the directory's own
\* entry, the name "."
ReadDirNamesWithDot(dirname) ==
    LET abs == Abs(dirname)
        node == IF Tree[abs].kind = "symlink" THEN Tree[Tree[abs].target] ELSE Tree[abs]
    IN  IF node.readable THEN [err |-> FALSE, names |-> <<".">> \o node.names]
        ELSE [err |-> TRUE, names |-> <<>>]

\* readDirNames(dirname): (names, err), for a name Lstat found a directory
ReadDirNames(dirname) ==
    LET abs == Abs(dirname)
        node == IF Tree[abs].kind = "symlink" THEN Tree[Tree[abs].target] ELSE Tree[abs]
    IN  IF node.readable THEN [err |-> FALSE, names |-> node.names]
        ELSE [err |-> TRUE, names |-> <<>>]

-----------------------------------------------------------------------------
(* Config, New and the per-entry checks.                                   *)

NilConfig == [nil |-> TRUE]

NoSearcher == "nil"

Nil == "nil"

\* A *Config with the given fields and the zero value in the others
Config(pattern, advanced, exclude, include, threads, maxResults) ==
    [Pattern |-> pattern, Advanced |-> advanced, Extensions |-> <<>>,
     Size |-> "", Mtime |-> "", Content |-> "", Exclude |-> exclude,
     Include |-> include, Threads |-> threads, Depth |-> 0,
     FollowLinks |-> FALSE, MaxResults |-> maxResults, Verbose |-> FALSE]

\* Variant: only the included roots that exist are returned
getSearchRootsExisting(c) ==
    IF Len(c.Include) > 0 THEN SelectSeq(c.Include, LAMBDA r : ~Lstat(r).err)
    ELSE <<"/">>

\* getSearchRoots
getSearchRoots(c) ==
    IF Len(c.Include) > 0 THEN c.Include
    ELSE IF env.goos = "darwin"
    THEN (IF env.home # "" THEN <<"/", env.home>> ELSE <<"/">>)
            \o <<"/Applications", "/usr/local">>
    ELSE <<"/">>

\* The first loop of shouldExclude
ExcludeLoop[excludes \in Seq(STRING), path \in STRING] ==
    IF excludes = <<>> THEN FALSE
    ELSE IF Contains(path, Head(excludes)) THEN TRUE
    ELSE ExcludeLoop[Tail(excludes), path]

systemDirs == <<"/proc", "/sys", "/dev", "/tmp">>

\* The second loop of shouldExclude
SystemDirLoop[dirs \in Seq(STRING), path \in STRING] ==
    IF dirs = <<>> THEN FALSE
    ELSE IF HasPrefix(path, Head(dirs)) THEN TRUE
    ELSE SystemDirLoop[Tail(dirs), path]

\* shouldExclude without its default exclusions
shouldExcludeListOnly(c, path) == ExcludeLoop[c.Exclude, path]

\* Variant: the exclude tokens are looked for in the last element of the path
shouldExcludeByName(c, path) ==
    IF ExcludeLoop[c.Exclude, Base(path)] THEN TRUE
    ELSE SystemDirLoop[systemDirs, path]

shouldExclude(c, path) ==
    IF ExcludeLoop[c.Exclude, path] THEN TRUE
    ELSE SystemDirLoop[systemDirs, path]

\* Variant: the pattern stage without its second, lower-case attempt
PatternMatchesCaseSensitive(c, filename) ==
    IF c.Advanced
    THEN fuzzyMatch(Bytes(ToLower(filename)), Bytes(ToLower(c.Pattern)))
    ELSE LET m == Match(c.Pattern, filename) IN ~m.err /\ m.matched

\* Variant: the extension stage comparing case-sensitively
ExtensionMatchesCaseSensitive(c, filename) ==
    IF Len(c.Extensions) > 0
    THEN LET ext == TrimPrefix(Ext(filename), ".") IN
         \E i \in 1..Len(c.Extensions) : ext = c.Extensions[i]
    ELSE TRUE

\* The pattern stage of matches
PatternMatches(c, filename) ==
    IF c.Advanced
    THEN fuzzyMatch(Bytes(ToLower(filename)), Bytes(ToLower(c.Pattern)))
    ELSE LET m == Match(c.Pattern, filename) IN
         IF m.err \/ ~m.matched
         THEN Match(ToLower(c.Pattern), ToLower(filename)).matched
         ELSE TRUE

\* The extension stage of matches
ExtensionMatches(c, filename) ==
    IF Len(c.Extensions) > 0
    THEN LET ext == TrimPrefix(Ext(filename), ".") IN
         \E i \in 1..Len(c.Extensions) : EqualFold(ext, c.Extensions[i])
    ELSE TRUE

\* matches: Size and Mtime are read and not used
matches(c, path) ==
    LET filename == Base(path) IN
    IF ~PatternMatches(c, filename) THEN FALSE
    ELSE IF ~ExtensionMatches(c, filename) THEN FALSE
    ELSE TRUE

Result(path, info) ==
    [Path |-> path, Size |-> info.Size, ModTime |-> info.ModTime,
     IsDir |-> info.IsDir, Mode |-> info.Mode]

\* The paths of a list of results
PathsOf(list) == {list[i].Path : i \in 1..Len(list)}

NoResult == [Path |-> "", Size |-> 0, ModTime |-> 0, IsDir |-> FALSE, Mode |-> "nil"]

\* Variant: the walk function goes on to its checks when handed an error
WalkFnIgnoringErr(c, root, path, info, err) ==
    IF shouldExclude(c, path)
    THEN [ret |-> IF info.IsDir THEN "SkipDir" ELSE "nil", emit |-> FALSE,
          result |-> NoResult]
    ELSE IF matches(c, path)
    THEN [ret |-> "nil", emit |-> TRUE, result |-> Result(path, info)]
    ELSE [ret |-> "nil", emit |-> FALSE, result |-> NoResult]

\* Variant: an excluded directory is passed over and still descended into
WalkFnNoPrune(c, root, path, info, err) ==
    IF err \/ shouldExclude(c, path)
    THEN [ret |-> "nil", emit |-> FALSE, result |-> NoResult]
    ELSE IF matches(c, path)
    THEN [ret |-> "nil", emit |-> TRUE, result |-> Result(path, info)]
    ELSE [ret |-> "nil", emit |-> FALSE, result |-> NoResult]

\* Variant: the walk function without its depth limit
WalkFnNoDepthLimit(c, root, path, info, err) ==
    IF err THEN [ret |-> "nil", emit |-> FALSE, result |-> NoResult]
    ELSE IF shouldExclude(c, path)
    THEN [ret |-> IF info.IsDir THEN "SkipDir" ELSE "nil", emit |-> FALSE,
          result |-> NoResult]
    ELSE IF matches(c, path)
    THEN [ret |-> "nil", emit |-> TRUE, result |-> Result(path, info)]
    ELSE [ret |-> "nil", emit |-> FALSE, result |-> NoResult]

\* Variant: the exclusion check is not made on the root itself
WalkFnExcludingBelowRoot(c, root, path, info, err) ==
    IF err THEN [ret |-> "nil", emit |-> FALSE, result |-> NoResult]
    ELSE IF path # root /\ shouldExclude(c, path)
    THEN [ret |-> IF info.IsDir THEN "SkipDir" ELSE "nil", emit |-> FALSE,
          result |-> NoResult]
    ELSE IF c.Depth > 0
            /\ Count(TrimPrefix(path, root), PathSeparator) > c.Depth
    THEN [ret |-> IF info.IsDir THEN "SkipDir" ELSE "nil", emit |-> FALSE,
          result |-> NoResult]
    ELSE IF matches(c, path)
    THEN [ret |-> "nil", emit |-> TRUE, result |-> Result(path, info)]
    ELSE [ret |-> "nil", emit |-> FALSE, result |-> NoResult]

\* The function searchWorker hands to filepath.Walk, up to its select: what
\* it returns when it does not submit (nil or SkipDir), or the result it
\* submits.
WalkFn(c, root, path, info, err) ==
    IF err THEN [ret |-> "nil", emit |-> FALSE, result |-> NoResult]
    ELSE IF shouldExclude(c, path)
    THEN [ret |-> IF info.IsDir THEN "SkipDir" ELSE "nil", emit |-> FALSE,
          result |-> NoResult]
    ELSE IF c.Depth > 0
            /\ Count(TrimPrefix(path, root), PathSeparator) > c.Depth
    THEN [ret |-> IF info.IsDir THEN "SkipDir" ELSE "nil", emit |-> FALSE,
          result |-> NoResult]
    ELSE IF matches(c, path)
    THEN [ret |-> "nil", emit |-> TRUE, result |-> Result(path, info)]
    ELSE [ret |-> "nil", emit |-> FALSE, result |-> NoResult]

-----------------------------------------------------------------------------
(* The goroutines.                                                         *)

NoProbe == [fn |-> "none"]

Worker(root) ==
    [root |-> root, pc |-> "walk", todo |-> <<root>>, pending |-> NoResult,
     visited |-> <<>>, emitted |-> <<>>]

\* One step of filepath.Walk: lstat the next entry (the root, or the next
\* name of a directory being listed, joined to it), list it if it is a
\* directory, call the walk function, and queue the entries of a directory
\* the function did not skip. [out, children]
Visit(c, root, path) ==
    LET ls == Lstat(path) IN
    IF ls.err THEN [out |-> WalkFn(c, root, path, NoInfo, TRUE), children |-> <<>>]
    ELSE IF ~ls.info.IsDir
    THEN [out |-> WalkFn(c, root, path, ls.info, FALSE), children |-> <<>>]
    ELSE LET rd == ReadDirNames(path)
             out == WalkFn(c, root, path, ls.info, rd.err)
         IN  [out |-> out,
              children |-> IF rd.err \/ out.ret # "nil" THEN <<>>
                           ELSE [i \in 1..Len(rd.names) |-> Join(path, rd.names[i])]]

\* Variant: only a negative thread count is replaced
NormalizeThreadsNegativeOnly(c, cpus) ==
    IF c.Threads < 0 THEN [c EXCEPT !.Threads = cpus] ELSE c

\* Variant: New also replaces a negative MaxResults, by 0
NormalizeThreadsAndMaxResults(c, cpus) ==
    [c EXCEPT !.Threads = IF c.Threads <= 0 THEN cpus ELSE c.Threads,
              !.MaxResults = IF c.MaxResults < 0 THEN 0 ELSE c.MaxResults]

\* The default thread count of New
NormalizeThreads(c, cpus) ==
    IF c.Threads <= 0 THEN [c EXCEPT !.Threads = cpus] ELSE c

\* New(config)
New ==
    /\ pc = "new"
    /\ IF config = NilConfig
       THEN /\ newErr' = "config cannot be nil"
            /\ pc' = "failed"
            /\ UNCHANGED <<config, searcher>>
       ELSE IF config.Pattern = ""
       THEN /\ newErr' = "search pattern cannot be empty"
            /\ pc' = "failed"
            /\ UNCHANGED <<config, searcher>>
       ELSE /\ config' = NormalizeThreads(config, env.numCPU)
            /\ searcher' = "searcher"
            /\ newErr' = Nil
            /\ pc' = "search"
    /\ UNCHANGED <<given, env, next, ch, chClosed, done, wg, results, mu, coll,
                   workers, ret, recvd, run, firstSet, probe>>

\* Search, to the start of its loop over the roots: the collector goroutine
\* is started
SearchStart ==
    /\ pc = "search"
    /\ coll' = [pc |-> "recv", val |-> NoResult]
    /\ next' = 1
    /\ pc' = "spawn"
    /\ UNCHANGED <<given, config, env, searcher, newErr, ch, chClosed, done, wg, results,
                   mu, workers, ret, recvd, run, firstSet, probe>>

\* Variant: no more workers are started than config.Threads; the roots
\* beyond that are passed over
SpawnUpToThreads ==
    /\ pc = "spawn"
    /\ next <= Len(getSearchRoots(config))
    /\ IF next <= config.Threads
       THEN /\ wg' = wg + 1
            /\ workers' = Append(workers, Worker(getSearchRoots(config)[next]))
       ELSE UNCHANGED <<wg, workers>>
    /\ next' = next + 1
    /\ UNCHANGED <<given, config, env, searcher, newErr, pc, ch, chClosed, done, results,
                   mu, coll, ret, recvd, run, firstSet, probe>>

\* One turn of the loop over the roots: s.wg.Add(1); go s.searchWorker(root)
Spawn ==
    /\ pc = "spawn"
    /\ next <= Len(getSearchRoots(config))
    /\ wg' = wg + 1
    /\ workers' = Append(workers, Worker(getSearchRoots(config)[next]))
    /\ next' = next + 1
    /\ UNCHANGED <<given, config, env, searcher, newErr, pc, ch, chClosed, done, results,
                   mu, coll, ret, recvd, run, firstSet, probe>>

\* Variant: the channel is closed as soon as the workers are started
WaitAndCloseWithoutWaiting ==
    /\ pc = "spawn"
    /\ next > Len(getSearchRoots(config))
    /\ ~chClosed
    /\ chClosed' = TRUE
    /\ pc' = "closed"
    /\ UNCHANGED <<given, config, env, searcher, newErr, next, ch, done, wg, results, mu,
                   coll, workers, ret, recvd, run, firstSet, probe>>

\* s.wg.Wait() returns; close(s.results)
WaitAndClose ==
    /\ pc = "spawn"
    /\ next > Len(getSearchRoots(config))
    /\ wg = 0
    /\ ~chClosed
    /\ chClosed' = TRUE
    /\ pc' = "closed"
    /\ UNCHANGED <<given, config, env, searcher, newErr, next, ch, done, wg, results, mu,
                   coll, workers, ret, recvd, run, firstSet, probe>>

\* The values a read of the slice can yield while the collector, which takes
\* no part in any synchronisation with the reader, may be appending to it:
\* the slice as any of the writes so far left it.
RacyRead(slice) == {SubSeq(slice, 1, n) : n \in 0..Len(slice)}

\* return results, nil
Return ==
    /\ pc = "closed"
    /\ \E r \in RacyRead(results) : ret' = [results |-> r, err |-> Nil]
    /\ pc' = "returned"
    /\ UNCHANGED <<given, config, env, searcher, newErr, next, ch, chClosed, done, wg,
                   results, mu, coll, workers, recvd, run, firstSet, probe>>

\* Variant: the collector stops receiving once the list is full
CollectorReceiveUntilFull ==
    /\ coll.pc = "recv"
    /\ ch # <<>>
    /\ Len(results) < config.MaxResults
    /\ coll' = [pc |-> "lock", val |-> Head(ch)]
    /\ ch' = Tail(ch)
    /\ recvd' = Append(recvd, Head(ch))
    /\ UNCHANGED <<given, config, env, searcher, newErr, pc, next, chClosed, done,
                   wg, results, mu, workers, ret, run, firstSet, probe>>

\* The collector: the next value of the range over s.results
CollectorReceive ==
    /\ coll.pc = "recv"
    /\ ch # <<>>
    /\ coll' = [pc |-> "lock", val |-> Head(ch)]
    /\ ch' = Tail(ch)
    /\ recvd' = Append(recvd, Head(ch))
    /\ UNCHANGED <<given, config, env, searcher, newErr, pc, next, chClosed, done, wg,
                   results, mu, workers, ret, run, firstSet, probe>>

\* The collector: mu.Lock()
CollectorLock ==
    /\ coll.pc = "lock"
    /\ ~mu
    /\ mu' = TRUE
    /\ coll' = [coll EXCEPT !.pc = "append"]
    /\ UNCHANGED <<given, config, env, searcher, newErr, pc, next, ch, chClosed, done, wg,
                   results, workers, ret, recvd, run, firstSet, probe>>

\* Variant: the length check lets one entry too many in
CollectorStoreOffByOne(list, maxResults, result) ==
    IF Len(list) <= maxResults THEN Append(list, result) ELSE list

\* Variant: a result received when the list is full takes the place of the
\* last one
CollectorStoreKeepingLatest(list, maxResults, result) ==
    IF Len(list) < maxResults THEN Append(list, result)
    ELSE IF list = <<>> THEN list
    ELSE Append(SubSeq(list, 1, Len(list) - 1), result)

\* Variant: a MaxResults of 0 or less stands for no limit
CollectorStoreZeroUnlimited(list, maxResults, result) ==
    IF maxResults <= 0 \/ Len(list) < maxResults THEN Append(list, result) ELSE list

\* The body of the collector's loop under the lock
CollectorStore(list, maxResults, result) ==
    IF Len(list) < maxResults THEN Append(list, result) ELSE list

\* The collector: the length check, the append, and mu.Unlock()
CollectorAppend ==
    /\ coll.pc = "append"
    /\ results' = CollectorStore(results, config.MaxResults, coll.val)
    /\ mu' = FALSE
    /\ coll' = [pc |-> "recv", val |-> NoResult]
    /\ UNCHANGED <<given, config, env, searcher, newErr, pc, next, ch, chClosed, done, wg,
                   workers, ret, recvd, run, firstSet, probe>>

\* The collector: the range ends, the channel being closed and empty
CollectorExit ==
    /\ coll.pc = "recv"
    /\ ch = <<>>
    /\ chClosed
    /\ coll' = [coll EXCEPT !.pc = "exit"]
    /\ UNCHANGED <<given, config, env, searcher, newErr, pc, next, ch, chClosed, done, wg,
                   results, mu, workers, ret, recvd, run, firstSet, probe>>

\* Variant: the walk ends at the first entry that cannot be accessed
WorkerVisitStoppingAtError(w) ==
    /\ workers[w].pc = "walk"
    /\ workers[w].todo # <<>>
    /\ \E v \in {Visit(config, workers[w].root, Head(workers[w].todo))} :
       LET me == workers[w]
           path == Head(me.todo)
       IN  workers' = [workers EXCEPT ![w] =
              [me EXCEPT !.todo = IF Lstat(path).err THEN <<>>
                                 ELSE v.children \o Tail(me.todo),
                         !.visited = Append(me.visited, path),
                         !.pc = IF v.out.emit THEN "send" ELSE "walk",
                         !.pending = v.out.result]]
    /\ UNCHANGED <<given, config, env, searcher, newErr, pc, next, ch, chClosed, done, wg,
                   results, mu, coll, ret, recvd, run, firstSet, probe>>

\* A worker: filepath.Walk visits its next entry, up to the select
WorkerVisit(w) ==
    /\ workers[w].pc = "walk"
    /\ workers[w].todo # <<>>
    /\ \E v \in {Visit(config, workers[w].root, Head(workers[w].todo))} :
       LET me == workers[w]
           path == Head(me.todo)
       IN  workers' = [workers EXCEPT ![w] =
              [me EXCEPT !.todo = v.children \o Tail(me.todo),
                         !.visited = Append(me.visited, path),
                         !.pc = IF v.out.emit THEN "send" ELSE "walk",
                         !.pending = v.out.result]]
    /\ UNCHANGED <<given, config, env, searcher, newErr, pc, next, ch, chClosed, done, wg,
                   results, mu, coll, ret, recvd, run, firstSet, probe>>

\* Variant: the value sent is put at the head of the channel's buffer
WorkerSendAhead(w) ==
    /\ workers[w].pc = "send"
    /\ ~chClosed
    /\ Len(ch) < ChanCap
    /\ ch' = <<workers[w].pending>> \o ch
    /\ workers' = [workers EXCEPT ![w] =
          [@ EXCEPT !.pc = "walk", !.pending = NoResult,
                    !.emitted = Append(@, workers[w].pending)]]
    /\ UNCHANGED <<given, config, env, searcher, newErr, pc, next, chClosed, done, wg,
                   results, mu, coll, ret, recvd, run, firstSet, probe>>

\* A worker: the select's case s.results <- result
WorkerSend(w) ==
    /\ workers[w].pc = "send"
    /\ ~chClosed
    /\ Len(ch) < ChanCap
    /\ ch' = Append(ch, workers[w].pending)
    /\ workers' = [workers EXCEPT ![w] =
          [@ EXCEPT !.pc = "walk", !.pending = NoResult,
                    !.emitted = Append(@, workers[w].pending)]]
    /\ UNCHANGED <<given, config, env, searcher, newErr, pc, next, chClosed, done, wg,
                   results, mu, coll, ret, recvd, run, firstSet, probe>>

\* Variant: a canceled worker drops the result and walks on
WorkerCanceledWalksOn(w) ==
    /\ workers[w].pc = "send"
    /\ done
    /\ workers' = [workers EXCEPT ![w] = [@ EXCEPT !.pc = "walk", !.pending = NoResult]]
    /\ UNCHANGED <<given, config, env, searcher, newErr, pc, next, ch, chClosed, done, wg,
                   results, mu, coll, ret, recvd, run, firstSet, probe>>

\* A worker: the select's case <-s.done. The walk function returns an error,
\* which ends the walk.
WorkerCanceled(w) ==
    /\ workers[w].pc = "send"
    /\ done
    /\ workers' = [workers EXCEPT ![w] =
          [@ EXCEPT !.pc = "walk", !.pending = NoResult, !.todo = <<>>]]
    /\ UNCHANGED <<given, config, env, searcher, newErr, pc, next, ch, chClosed, done, wg,
                   results, mu, coll, ret, recvd, run, firstSet, probe>>

\* A worker: filepath.Walk has returned; the deferred s.wg.Done()
WorkerExit(w) ==
    /\ workers[w].pc = "walk"
    /\ workers[w].todo = <<>>
    /\ wg' = wg - 1
    /\ workers' = [workers EXCEPT ![w] = [@ EXCEPT !.pc = "done"]]
    /\ UNCHANGED <<given, config, env, searcher, newErr, pc, next, ch, chClosed, done,
                   results, mu, coll, ret, recvd, run, firstSet, probe>>

-----------------------------------------------------------------------------
(* The searches of the model.                                              *)

\* <<Pattern, Advanced>>
Patterns == {<<"", FALSE>>, <<"*.go", FALSE>>, <<"*", FALSE>>, <<"mg", TRUE>>}

Excludes == {<<>>, <<"node_modules">>, <<".yaml">>}

\* Include lists of one root, the empty list standing for the default roots
OneRoot == {<<>>, <<"a">>, <<"b">>, <<"missing">>}

\* Include lists of two roots: a duplicate, and two distinct trees
TwoRoots == {<<"a", "a">>, <<"a", "b">>}

MaxResultsValues == {-1, 0, 1, MaxMaxResults}

ThreadsValues == {-1, 0, 2}

Configs ==
    {Config(p[1], p[2], e, i, 0, m) :
        p \in Patterns, e \in Excludes, i \in OneRoot, m \in MaxResultsValues}
    \cup {Config(p, FALSE, <<"node_modules">>, i, 0, m) :
        p \in {"*.go", "*"}, i \in TwoRoots, m \in MaxResultsValues}
    \cup {Config("*.go", FALSE, <<"node_modules">>, <<"a">>, t, 1) : t \in ThreadsValues}
    \cup {NilConfig}

Envs == [numCPU : 1..MaxCPU, goos : {"linux"}, home : {"/w"}]

\* Nothing has been constructed or started
Idle ==
    /\ searcher = NoSearcher
    /\ newErr = Nil
    /\ pc = "new"
    /\ next = 0
    /\ ch = <<>>
    /\ chClosed = FALSE
    /\ done = FALSE
    /\ wg = 0
    /\ results = <<>>
    /\ mu = FALSE
    /\ coll = [pc |-> "off", val |-> NoResult]
    /\ workers = <<>>
    /\ ret = [results |-> <<>>, err |-> Nil]
    /\ recvd = <<>>
    /\ run = 1
    /\ firstSet = {}

Init ==
    /\ config \in Configs
    /\ given = config
    /\ env \in Envs
    /\ Idle
    /\ probe = NoProbe

Next ==
    \/ New
    \/ SearchStart
    \/ Spawn
    \/ WaitAndClose
    \/ Return
    \/ CollectorReceive
    \/ CollectorLock
    \/ CollectorAppend
    \/ CollectorExit
    \/ \E w \in 1..Len(workers) : WorkerVisit(w)
    \/ \E w \in 1..Len(workers) : WorkerSend(w)
    \/ \E w \in 1..Len(workers) : WorkerExit(w)

Spec == Init /\ [][Next]_vars

\* The searches of the fair specification: New refusing the configuration,
\* a duplicate root and two distinct roots with more matches than MaxResults
\* plus the capacity of the channel, a tree with a symlink loop and entries
\* that cannot be accessed, a root that does not exist.
FairConfigs ==
    {NilConfig,
     Config("", FALSE, <<>>, <<"a">>, 0, 1),
     Config("*", FALSE, <<"node_modules">>, <<"a", "a">>, 0, 0),
     Config("*", FALSE, <<"node_modules">>, <<"a", "b">>, 0, 1),
     Config("*", FALSE, <<>>, <<"b">>, 0, 0),
     Config("*.go", FALSE, <<>>, <<"missing">>, 0, 1)}

InitFair ==
    /\ Init
    /\ config \in FairConfigs
    /\ env.numCPU = 1

\* The Go scheduler runs every goroutine that can take a step, so the steps
\* of main, of the collector and of each worker are each weakly fair. Weak
\* fairness of Next is all that is assumed here: it follows from the
\* fairness of each goroutine, so what holds under it holds under theirs.
FairSpec == InitFair /\ [][Next]_vars /\ WF_vars(Next)

\* A second search with the same configuration on a fresh Searcher, as the
\* loop of BenchmarkConcurrentSearch runs it: New(config) and Search() once
\* more. The first run's set of paths is remembered; its collector, which
\* owns the first run's channel and slice alone, is left out of the state.
SearchAgain ==
    /\ pc = "returned"
    /\ run = 1
    /\ run' = 2
    /\ firstSet' = PathsOf(ret.results)
    /\ pc' = "new"
    /\ searcher' = NoSearcher
    /\ next' = 0
    /\ ch' = <<>>
    /\ chClosed' = FALSE
    /\ wg' = 0
    /\ results' = <<>>
    /\ mu' = FALSE
    /\ coll' = [pc |-> "off", val |-> NoResult]
    /\ workers' = <<>>
    /\ ret' = [results |-> <<>>, err |-> Nil]
    /\ recvd' = <<>>
    /\ UNCHANGED <<given, config, env, newErr, done, probe>>

NextTwice == Next \/ SearchAgain

SpecTwice == Init /\ [][NextTwice]_vars

-----------------------------------------------------------------------------
(* Direct calls of the helpers, as the unit tests make them on a Searcher  *)
(* built in place: the arguments are drawn in the initial state and the    *)
(* one step is the call.                                                   *)

\* The UTF-8 encoding of a rune below U+0800, as a Go string holds it
EncodeRune(r) ==
    IF r < 128 THEN <<r>> ELSE <<192 + (r \div 64), 128 + (r % 64)>>

EncodeRunes[runes \in Seq(Nat)] ==
    IF runes = <<>> THEN <<>>
    ELSE EncodeRune(Head(runes)) \o EncodeRunes[Tail(runes)]

\* The strings of at most n characters over an alphabet
StringsOver[alphabet \in SUBSET STRING, n \in Nat] ==
    IF n = 0 THEN {""}
    ELSE StringsOver[alphabet, n - 1]
            \cup {s \o c : s \in StringsOver[alphabet, n - 1], c \in alphabet}

\* The runes a, g, e-acute (U+00E9) and the copyright sign (U+00A9)
RuneAlphabet == {97, 103, 233, 169}

RuneStrings == UNION {[1..n -> RuneAlphabet] : n \in 0..MaxRunes}

NameAlphabet == {"M", "m", "g"}

\* The only Searcher state a helper reads is config
ProbeIdle ==
    /\ given = config
    /\ env \in {e \in Envs : e.numCPU = 1}
    /\ Idle

\* searcher := &Searcher{}; searcher.fuzzyMatch(text, pattern)
InitFuzzyMatch ==
    /\ config = NilConfig
    /\ probe \in {[fn |-> "fuzzyMatch", text |-> EncodeRunes[t],
                    pattern |-> EncodeRunes[p], called |-> FALSE, out |-> FALSE] :
                       t \in RuneStrings, p \in RuneStrings}

\* searcher.matches(path, nil) in advanced mode
InitMatches ==
    /\ config \in {Config(p, TRUE, <<>>, <<>>, 0, 0) :
                       p \in StringsOver[NameAlphabet, MaxRunes]}
    /\ probe \in {[fn |-> "matches", path |-> f, called |-> FALSE, out |-> FALSE] :
                       f \in StringsOver[NameAlphabet, MaxRunes] \ {""}}

InitFuzzy == (InitFuzzyMatch \/ InitMatches) /\ ProbeIdle

CallFuzzyMatch ==
    /\ probe.fn = "fuzzyMatch"
    /\ ~probe.called
    /\ probe' = [probe EXCEPT !.called = TRUE,
                              !.out = fuzzyMatch(probe.text, probe.pattern)]
    /\ UNCHANGED <<given, config, env, searcher, newErr, pc, next, ch, chClosed, done,
                   wg, results, mu, coll, workers, ret, recvd, run, firstSet>>

CallMatches ==
    /\ probe.fn = "matches"
    /\ ~probe.called
    /\ probe' = [probe EXCEPT !.called = TRUE, !.out = matches(config, probe.path)]
    /\ UNCHANGED <<given, config, env, searcher, newErr, pc, next, ch, chClosed, done,
                   wg, results, mu, coll, workers, ret, recvd, run, firstSet>>

NextFuzzy == CallFuzzyMatch \/ CallMatches

SpecFuzzy == InitFuzzy /\ [][NextFuzzy]_vars

\* The exclude lists of the calls: none, the list of TestShouldExclude,
\* short elements, the empty string
ExcludeLists ==
    {<<>>, <<"node_modules", ".git">>, <<"a">>, <<"/a", ".">>, <<"">>}

PathAlphabet == {"/", "a", "."}

\* The paths of TestShouldExclude, paths around the system directories, and
\* every short path over the alphabet
ProbePaths ==
    {"/home/user/project/file.go", "/proc/cpuinfo", "/sys/devices", "/dev/null",
     "/tmp/test", "/home/user/node_modules/package", "/home/user/.git/config",
     "/tmp", "/tmpfs", "/tm", "tmp/x", "/home/tmp", "/w/proc", "/system", "dev"}
        \cup StringsOver[PathAlphabet, MaxPathLen]

\* searcher := &Searcher{config: &Config{Exclude: ...}};
\* searcher.shouldExclude(path)
InitExclude ==
    /\ config \in {Config("x", FALSE, e, <<>>, 0, 0) : e \in ExcludeLists}
    /\ probe \in {[fn |-> "shouldExclude", path |-> p, called |-> FALSE,
                    out |-> FALSE] : p \in ProbePaths}
    /\ ProbeIdle

CallShouldExclude ==
    /\ probe.fn = "shouldExclude"
    /\ ~probe.called
    /\ probe' = [probe EXCEPT !.called = TRUE,
                              !.out = shouldExclude(config, probe.path)]
    /\ UNCHANGED <<given, config, env, searcher, newErr, pc, next, ch, chClosed, done,
                   wg, results, mu, coll, workers, ret, recvd, run, firstSet>>

NextExclude == CallShouldExclude

SpecExclude == InitExclude /\ [][NextExclude]_vars

\* The extension lists of the calls: none, the list of the scenario, an
\* upper-case element, an element with its dot, the empty string
ExtensionLists == {<<>>, <<"go", "rs">>, <<"GO">>, <<".go">>, <<"">>}

\* Glob patterns: every name, the patterns of TestMatches, upper-case and
\* mixed-case patterns, a class, a single-character wildcard, an escape, a
\* pattern that is malformed
GlobPatterns ==
    {"*", "*.go", "*.yaml", "*.GO", "M*", "main.go", "[a-m]*.go", "?ain.*",
     "\\M*", "[a"}

\* The paths of the calls: the files of the scenario and of TestMatches,
\* upper-case names, names without a dot, with a leading or a trailing dot,
\* with two dots, and a name under a directory that has a dot
ProbeNames ==
    {"main.go", "main.py", "lib.rs", "config.yaml", "README.md", "Lib.GO",
     "Main.go", "Makefile", ".go", "name.", "a.b.go", "v1.2/notes",
     "/w/a/main.go"}

\* searcher := &Searcher{config: &Config{Pattern: ..., Extensions: ...}};
\* searcher.matches(path, info)
InitNames ==
    /\ config \in {[Config(p, FALSE, <<>>, <<>>, 0, 0) EXCEPT !.Extensions = x] :
                       p \in GlobPatterns, x \in ExtensionLists}
    /\ probe \in {[fn |-> "matches", path |-> f, called |-> FALSE, out |-> FALSE] :
                       f \in ProbeNames}
    /\ ProbeIdle

NextNames == CallMatches

SpecNames == InitNames /\ [][NextNames]_vars

-----------------------------------------------------------------------------
(* Searches with a depth limit (the --depth flag).                         *)

\* A relative root, the same root with a trailing separator, an absolute
\* root two levels above the deepest file, and two roots
DepthRoots == {<<"a">>, <<"a/">>, <<"/w">>, <<"b", "/w/a">>}

DepthConfigs ==
    {[Config(p, FALSE, <<>>, i, 0, MaxMaxResults) EXCEPT !.Depth = d] :
        p \in {"*", "*.go"}, i \in DepthRoots, d \in 0..MaxDepth}

InitDepth ==
    /\ config \in DepthConfigs
    /\ given = config
    /\ env \in {e \in Envs : e.numCPU = 1}
    /\ Idle
    /\ probe = NoProbe

SpecDepth == InitDepth /\ [][Next]_vars

-----------------------------------------------------------------------------
(* A second search whose configuration differs from the first in the       *)
(* fields the engine does not use: Size, Mtime, Content and FollowLinks.   *)

\* Values of the --size, --mtime, --content and --follow-symlinks flags
FieldValues ==
    [Size : {"", "+100M"}, Mtime : {"", "-7d"}, Content : {"", "main"},
     FollowLinks : BOOLEAN]

\* c with the four fields set
WithFields(c, f) ==
    [c EXCEPT !.Size = f.Size, !.Mtime = f.Mtime, !.Content = f.Content,
              !.FollowLinks = f.FollowLinks]

\* One root with a single match, and the tree with the symbolic link
FieldConfigs ==
    {Config("*.go", FALSE, <<"node_modules">>, <<"a">>, 2, 1),
     Config("*", FALSE, <<>>, <<"b">>, 2, MaxMaxResults)}

InitFields ==
    /\ config \in FieldConfigs
    /\ given = config
    /\ env \in {e \in Envs : e.numCPU = 1}
    /\ Idle
    /\ probe = NoProbe

\* New and Search once more, on a configuration that differs from the first
\* (kept in given) in some of the four fields
SearchAgainOtherFields ==
    /\ pc = "returned"
    /\ run = 1
    /\ run' = 2
    /\ firstSet' = PathsOf(ret.results)
    /\ \E f \in FieldValues :
          /\ WithFields(config, f) # config
          /\ config' = WithFields(config, f)
    /\ pc' = "new"
    /\ searcher' = NoSearcher
    /\ next' = 0
    /\ ch' = <<>>
    /\ chClosed' = FALSE
    /\ wg' = 0
    /\ results' = <<>>
    /\ mu' = FALSE
    /\ coll' = [pc |-> "off", val |-> NoResult]
    /\ workers' = <<>>
    /\ ret' = [results |-> <<>>, err |-> Nil]
    /\ recvd' = <<>>
    /\ UNCHANGED <<given, env, newErr, done, probe>>

NextFields == Next \/ SearchAgainOtherFields

SpecFields == InitFields /\ [][NextFields]_vars

-----------------------------------------------------------------------------
(* Direct calls of getSearchRoots.                                         *)

\* The roots of TestGetSearchRoots, roots of the tree, a root that does not
\* exist
RootNames == {"/home", "/opt", "a", "b", "missing"}

IncludeLists == UNION {[1..n -> RootNames] : n \in 0..MaxInclude}

\* Linux and macOS, the home directory known or not
RootEnvs == [numCPU : {1}, goos : {"linux", "darwin"}, home : {"/w", ""}]

\* searcher := &Searcher{config: &Config{Include: ...}}
InitRoots ==
    /\ config \in {Config("x", FALSE, <<>>, i, 0, 0) : i \in IncludeLists}
    /\ given = config
    /\ env \in RootEnvs
    /\ Idle
    /\ probe = [fn |-> "getSearchRoots", called |-> FALSE, out |-> <<>>]

\* roots := searcher.getSearchRoots()
CallGetSearchRoots ==
    /\ probe.fn = "getSearchRoots"
    /\ ~probe.called
    /\ probe' = [probe EXCEPT !.called = TRUE, !.out = getSearchRoots(config)]
    /\ UNCHANGED <<given, config, env, searcher, newErr, pc, next, ch, chClosed, done,
                   wg, results, mu, coll, workers, ret, recvd, run, firstSet>>

NextRoots == CallGetSearchRoots

SpecRoots == InitRoots /\ [][NextRoots]_vars

-----------------------------------------------------------------------------
(* Cancellation. No function of the package closes s.done, and the field   *)
(* is not exported: the signal can only be fired from inside the package,  *)
(* which is what CloseDone stands for.                                     *)

\* close(s.done), once, on a Searcher that New has returned
CloseDone ==
    /\ searcher # NoSearcher
    /\ ~done
    /\ done' = TRUE
    /\ UNCHANGED <<given, config, env, searcher, newErr, pc, next, ch, chClosed, wg,
                   results, mu, coll, workers, ret, recvd, run, firstSet, probe>>

\* Searches with more matches than the channel holds: one worker over five
\* entries, two workers over two entries each
CancelConfigs ==
    {Config("*", FALSE, <<>>, <<"a">>, 0, 1),
     Config("*", FALSE, <<>>, <<"a/node_modules", "a/node_modules">>, 0, 0)}

InitCancel ==
    /\ config \in CancelConfigs
    /\ given = config
    /\ env \in {e \in Envs : e.numCPU = 1}
    /\ Idle
    /\ probe = NoProbe

NextCancel ==
    \/ Next
    \/ CloseDone
    \/ \E w \in 1..Len(workers) : WorkerCanceled(w)

SpecCancel == InitCancel /\ [][NextCancel]_vars

\* The steps of main and of the workers
MainOrWorkerStep ==
    \/ New \/ SearchStart \/ Spawn \/ WaitAndClose \/ Return
    \/ (\E w \in 1..Len(workers) :
           WorkerSend(w) \/ WorkerCanceled(w) \/ WorkerExit(w))
    \/ (\E w \in 1..Len(workers) : WorkerVisit(w))

\* Main and the workers are scheduled fairly; nothing is assumed of the
\* collector, which may stop draining the channel at any point. Weak
\* fairness of the steps of main and the workers taken together follows
\* from the fairness of each: the collector can take only finitely many
\* steps while none of them moves.
FairSpecCancel == SpecCancel /\ WF_vars(MainOrWorkerStep)

-----------------------------------------------------------------------------
(* The command line: initConfig loads the configuration file, runSearch    *)
(* builds the search configuration.                                        *)

DefaultMaxDepth == 20

DefaultMaxResults == 1000

\* The keys of the configuration file the merge is about, by the name of
\* the flag each corresponds to
MergedFlags == {"exclude", "include", "depth", "follow-symlinks", "threads",
                "max-results"}

\* setDefaults: the value of each key when the file does not set it
ViperDefaults ==
    [exclude |-> <<"/proc", "/sys", "/dev", "/tmp">>, include |-> <<>>,
     depth |-> DefaultMaxDepth, followLinks |-> FALSE, threads |-> 0,
     maxResults |-> DefaultMaxResults]

\* The default of each flag variable, as init registers the flags
FlagDefaults ==
    [exclude |-> <<>>, include |-> <<>>, depth |-> 0, followLinks |-> FALSE,
     threads |-> 0, maxResults |-> DefaultMaxResults]

\* The value each flag is given when it is given on the command line
FlagsGiven ==
    [exclude |-> <<"node_modules">>, include |-> <<"a">>, depth |-> 1,
     followLinks |-> TRUE, threads |-> 2, maxResults |-> 1]

\* The field of a flag
FlagField(name) ==
    CASE name = "exclude" -> "exclude"
      [] name = "include" -> "include"
      [] name = "depth" -> "depth"
      [] name = "follow-symlinks" -> "followLinks"
      [] name = "threads" -> "threads"
      [] name = "max-results" -> "maxResults"

\* The flag variables after cobra has parsed a command line that gives the
\* flags in changed
FlagVars(changed) ==
    [k \in DOMAIN FlagDefaults |->
        IF \E n \in changed : FlagField(n) = k THEN FlagsGiven[k] ELSE FlagDefaults[k]]

NoFile == [absent |-> TRUE]

\* Configuration files: one that sets every key, one that sets max_depth
\* and max_results only
ConfigFiles ==
    {[exclude |-> <<".git">>, include |-> <<"b">>, depth |-> 5, followLinks |-> TRUE,
      threads |-> 4, maxResults |-> 10],
     [depth |-> 3, maxResults |-> 10]}

NilCfg == [nil |-> TRUE]

\* config.Load: cfg stays nil when no file is found; otherwise it is
\* unmarshalled from the file's keys over the defaults
Load(file) ==
    IF file = NoFile THEN NilCfg
    ELSE [k \in DOMAIN ViperDefaults |->
             IF k \in DOMAIN file THEN file[k] ELSE ViperDefaults[k]]

\* runSearch, to the call of search.New: the search configuration is built
\* from the flag variables; cfg is not read
runSearch(pattern, changed, cfg) ==
    IF pattern = "" THEN [err |-> "search pattern is required", config |-> NilConfig]
    ELSE LET v == FlagVars(changed) IN
         [err |-> Nil,
          config |-> [Config(pattern, FALSE, v.exclude, v.include, v.threads,
                             v.maxResults)
                         EXCEPT !.Depth = v.depth, !.FollowLinks = v.followLinks]]

InitCli ==
    /\ config = NilConfig
    /\ probe \in {[fn |-> "runSearch", stage |-> "start", pattern |-> a,
                    changed |-> c, file |-> f, cfg |-> NilCfg, called |-> FALSE,
                    out |-> [err |-> Nil, config |-> NilConfig]] :
                       a \in {"", "*.go"}, c \in SUBSET MergedFlags,
                       f \in ConfigFiles \cup {NoFile}}
    /\ ProbeIdle

\* initConfig, which cobra runs before the command
InitConfig ==
    /\ probe.fn = "runSearch"
    /\ probe.stage = "start"
    /\ probe' = [probe EXCEPT !.stage = "loaded", !.cfg = Load(probe.file)]
    /\ UNCHANGED <<given, config, env, searcher, newErr, pc, next, ch, chClosed, done,
                   wg, results, mu, coll, workers, ret, recvd, run, firstSet>>

CallRunSearch ==
    /\ probe.fn = "runSearch"
    /\ probe.stage = "loaded"
    /\ probe' = [probe EXCEPT !.stage = "built", !.called = TRUE,
                              !.out = runSearch(probe.pattern, probe.changed, probe.cfg)]
    /\ UNCHANGED <<given, config, env, searcher, newErr, pc, next, ch, chClosed, done,
                   wg, results, mu, coll, workers, ret, recvd, run, firstSet>>

NextCli == InitConfig \/ CallRunSearch

SpecCli == InitCli /\ [][NextCli]_vars

-----------------------------------------------------------------------------
(* Searches over roots that do not exist and entries that cannot be        *)
(* accessed.                                                               *)

\* A missing root beside a root that exists, the tree with the entry whose
\* lstat fails and the directory that cannot be read, alone and beside
\* other roots
ErrorRoots == {<<"missing", "a">>, <<"missing", "b">>, <<"b", "a">>, <<"b">>}

ErrorConfigs ==
    {Config(p, FALSE, <<>>, i, 0, MaxMaxResults) : p \in {"*", "*.go"}, i \in ErrorRoots}

InitErrors ==
    /\ config \in ErrorConfigs
    /\ given = config
    /\ env \in {e \in Envs : e.numCPU = 1}
    /\ Idle
    /\ probe = NoProbe

SpecErrors == InitErrors /\ [][Next]_vars

-----------------------------------------------------------------------------
(* Searches over roots that overlap: a root beside a directory beneath it, *)
(* the same directory written with and without a trailing separator, and, *)
(* for comparison, a single root holding a symbolic link to itself and two *)
(* roots that are apart.                                                   *)

OverlapRoots == {<<"a", "a/node_modules">>, <<"a/", "a">>, <<"b">>, <<"a", "b">>}

OverlapConfigs ==
    {Config("*.go", FALSE, <<>>, i, 0, m) : i \in OverlapRoots, m \in {1, MaxMaxResults}}

InitOverlap ==
    /\ config \in OverlapConfigs
    /\ given = config
    /\ env \in {e \in Envs : e.numCPU = 1}
    /\ Idle
    /\ probe = NoProbe

SpecOverlap == InitOverlap /\ [][Next]_vars

-----------------------------------------------------------------------------
(* Searches that leave MaxResults at 0, as BenchmarkConcurrentSearch does, *)
(* or set it below 0, over more matches than the channel holds: one worker *)
(* over five entries, two workers over two entries each.                   *)

InitZero ==
    /\ config \in {Config("*", FALSE, <<>>, i, 0, m) :
                       i \in {<<"a">>, <<"a/node_modules", "a/node_modules">>},
                       m \in {-1, 0}}
    /\ given = config
    /\ env \in {e \in Envs : e.numCPU = 1}
    /\ Idle
    /\ probe = NoProbe

\* Fair scheduling of the goroutines, as in FairSpec
FairSpecZero == InitZero /\ [][Next]_vars /\ WF_vars(Next)

-----------------------------------------------------------------------------
(* A second Search on the same Searcher. New makes the channel (search.go   *)
(* 71) and Search closes it (103): the second call finds it closed. A send *)
(* on a closed channel and the close of a closed channel panic, and a      *)
(* panic that no goroutine recovers ends the process.                      *)

\* Variant: Search makes itself a new channel at each call
SearchAgainWithNewChannel ==
    /\ pc = "returned"
    /\ run = 1
    /\ run' = 2
    /\ firstSet' = PathsOf(ret.results)
    /\ pc' = "search"
    /\ next' = 0
    /\ ch' = <<>>
    /\ chClosed' = FALSE
    /\ results' = <<>>
    /\ mu' = FALSE
    /\ coll' = [pc |-> "off", val |-> NoResult]
    /\ workers' = <<>>
    /\ ret' = [results |-> <<>>, err |-> Nil]
    /\ recvd' = <<>>
    /\ UNCHANGED <<given, config, env, searcher, newErr, done, wg, probe>>

\* searcher.Search() once more on the Searcher whose first Search has
\* returned: new locals (results, mu), the same channel, wait group and
\* config. The first call's workers are all done; its collector may still
\* be running (see FirstCollectorReceive).
SearchAgainSameSearcher ==
    /\ pc = "returned"
    /\ run = 1
    /\ run' = 2
    /\ firstSet' = PathsOf(ret.results)
    /\ pc' = "search"
    /\ next' = 0
    /\ results' = <<>>
    /\ mu' = FALSE
    /\ coll' = [pc |-> "off", val |-> NoResult]
    /\ workers' = <<>>
    /\ ret' = [results |-> <<>>, err |-> Nil]
    /\ recvd' = <<>>
    /\ UNCHANGED <<given, config, env, searcher, newErr, ch, chClosed, done, wg, probe>>

\* The collector of the first call, which Search did not wait for, takes
\* the next value left in the channel. What it does with it (its own lock
\* and slice) is seen by nobody.
FirstCollectorReceive ==
    /\ run = 2
    /\ pc # "panic"
    /\ ch # <<>>
    /\ ch' = Tail(ch)
    /\ UNCHANGED <<given, config, env, searcher, newErr, pc, next, chClosed, done, wg,
                   results, mu, coll, workers, ret, recvd, run, firstSet, probe>>

\* The goroutines once the process has ended
Dead(ws) == [w \in 1..Len(ws) |-> [ws[w] EXCEPT !.pc = "dead"]]

\* A worker: the select's case s.results <- result on the closed channel:
\* panic (send on closed channel)
WorkerSendPanics(w) ==
    /\ workers[w].pc = "send"
    /\ chClosed
    /\ pc' = "panic"
    /\ workers' = [Dead(workers) EXCEPT ![w].pc = "panic"]
    /\ coll' = [coll EXCEPT !.pc = "dead"]
    /\ UNCHANGED <<given, config, env, searcher, newErr, next, ch, chClosed, done, wg,
                   results, mu, ret, recvd, run, firstSet, probe>>

\* s.wg.Wait() returns; close(s.results) on the closed channel: panic (close
\* of closed channel)
ClosePanics ==
    /\ pc = "spawn"
    /\ next > Len(getSearchRoots(config))
    /\ wg = 0
    /\ chClosed
    /\ pc' = "panic"
    /\ workers' = Dead(workers)
    /\ coll' = [coll EXCEPT !.pc = "dead"]
    /\ UNCHANGED <<given, config, env, searcher, newErr, next, ch, chClosed, done, wg,
                   results, mu, ret, recvd, run, firstSet, probe>>

\* A search with more matches than the channel holds, a search with one
\* match, and searches without any: of a root that does not exist, and for
\* a name no entry has
InitReuse ==
    /\ config \in {Config("*", FALSE, <<>>, <<"a">>, 0, 1),
                    Config("*.go", FALSE, <<"node_modules">>, <<"a">>, 0, 1),
                    Config("*.go", FALSE, <<>>, <<"missing">>, 0, 1),
                    Config("*.rs", FALSE, <<>>, <<"a", "b">>, 0, 1)}
    /\ given = config
    /\ env \in {e \in Envs : e.numCPU = 1}
    /\ Idle
    /\ probe = NoProbe

NextReuse ==
    \/ Next
    \/ SearchAgainSameSearcher
    \/ FirstCollectorReceive
    \/ \E w \in 1..Len(workers) : WorkerSendPanics(w)
    \/ ClosePanics

SpecReuse == InitReuse /\ [][NextReuse]_vars

-----------------------------------------------------------------------------
(* Searches that prune: an excluded directory and a depth limit, over one  *)
(* root written in four ways, and over roots that are excluded themselves  *)
(* (a directory and a file under /tmp, a directory named by an exclude     *)
(* token). filepath.Walk hands the walk function the root as it is written *)
(* and the entries beneath it as filepath.Join leaves them, cleaned.       *)

InitPrune ==
    /\ config \in {[Config(p, FALSE, e, i, 0, MaxMaxResults) EXCEPT !.Depth = d] :
                       p \in {"*", "*.go"},
                       e \in {<<>>, <<"node_modules">>, <<"./">>},
                       i \in {<<"a">>, <<"a/">>, <<"./a">>, <<"/w/a">>,
                              <<"/tmp">>, <<"/tmp/t.go">>, <<"a/node_modules">>},
                       d \in 0..1}
    /\ given = config
    /\ env \in {e \in Envs : e.numCPU = 1}
    /\ Idle
    /\ probe = NoProbe

SpecPrune == InitPrune /\ [][Next]_vars

-----------------------------------------------------------------------------
(* What the properties speak of. These definitions put the words of the    *)
(* properties (beneath, subsequence, levels below a root, interleaving)    *)
(* into formulas; they are written from those words, not from the code,    *)
(* so that a property is not stated through the operator it is about.      *)

IsNil(c) == c = NilConfig

\* New has succeeded: Search is running or has returned
Searching == pc \in {"search", "spawn", "closed", "returned"}

\* The first n elements of a sequence (all of it when it is shorter)
Take(seq, n) == SubSeq(seq, 1, IF n < 0 THEN 0 ELSE Min(n, Len(seq)))

\* The entries a walk from path reaches: the entry itself, when lstat finds
\* it, and what is reached from the entries of a directory that can be read.
EntriesFrom[path \in STRING] ==
    LET ls == Lstat(path) IN
    IF ls.err THEN {}
    ELSE IF ~ls.info.IsDir \/ ReadDirNames(path).err THEN {path}
    ELSE {path} \cup UNION {EntriesFrom[Join(path, ReadDirNames(path).names[i])] :
                                i \in 1..Len(ReadDirNames(path).names)}

\* The entry can be handed to the checks: lstat finds it and, when it is a
\* directory, it can be listed
Accessible(path) ==
    /\ ~Lstat(path).err
    /\ Lstat(path).info.IsDir => ~ReadDirNames(path).err

\* The entry passes the exclusion, depth, name and extension checks
PassesChecks(c, root, path) ==
    /\ ~shouldExclude(c, path)
    /\ c.Depth > 0 => Count(TrimPrefix(path, root), PathSeparator) <= c.Depth
    /\ matches(c, path)

\* The paths of the entries under the roots that pass every check
MatchingEntries(c) ==
    UNION {{path \in EntriesFrom[getSearchRoots(c)[r]] :
                Accessible(path) /\ PassesChecks(c, getSearchRoots(c)[r], path)} :
           r \in 1..Len(getSearchRoots(c))}

\* Entry q lies beneath directory p in the tree
Beneath(q, p) ==
    /\ Abs(q) # Abs(p)
    /\ HasPrefix(Abs(q), IF Abs(p) = PathSeparator THEN PathSeparator
                         ELSE Abs(p) \o PathSeparator)

\* p is a subsequence of t: its elements occur in t in the same order
Subsequence(p, t) ==
    \E f \in [1..Len(p) -> 1..Len(t)] :
        /\ \A i \in 1..Len(p) : \A j \in 1..Len(p) : i < j => f[i] < f[j]
        /\ \A i \in 1..Len(p) : t[f[i]] = p[i]

\* e occurs in p as a run of consecutive characters
Substring(e, p) ==
    \E i \in 1..(Len(p) + 1) : \E j \in (i - 1)..Len(p) : SubSeq(p, i, j) = e

\* p begins with d
BeginsWith(p, d) == Len(d) <= Len(p) /\ SubSeq(p, 1, Len(d)) = d

\* The positions of the dots of a name
Dots(name) == {i \in 1..Len(name) : At(name, i) = "."}

\* The last element of a path: what follows its last separator
LastElement(path) ==
    LET seps == {i \in 1..Len(path) : At(path, i) = PathSeparator} IN
    IF seps = {} THEN path
    ELSE SubSeq(path, (CHOOSE i \in seps : \A j \in seps : j <= i) + 1, Len(path))

\* The part of a name after its last dot
AfterLastDot(name) ==
    SubSeq(name, (CHOOSE i \in Dots(name) : \A j \in Dots(name) : j <= i) + 1,
           Len(name))

\* The extension of a name without its dot: empty when the name has no dot
ExtensionOf(name) == IF Dots(name) = {} THEN "" ELSE AfterLastDot(name)

\* Equal when case is ignored
SameIgnoringCase(s, t) == ToLower(s) = ToLower(t)

\* The number of separators in what is left of a path once the root it
\* begins with is stripped
SeparatorsBelow(root, path) ==
    LET rest == IF BeginsWith(path, root)
                THEN SubSeq(path, Len(root) + 1, Len(path)) ELSE path
    IN  Cardinality({i \in 1..Len(rest) : At(rest, i) = PathSeparator})

\* The collector holds a result the list has room for, or can receive one
CollectorCanStillAppend ==
    /\ Len(results) < config.MaxResults
    /\ \/ coll.pc \in {"lock", "append"}
       \/ coll.pc = "recv" /\ ch # <<>>

\* How many results of a list carry the path
Occurrences(path, list) == Cardinality({i \in 1..Len(list) : list[i].Path = path})

\* The workers that have sent a result with the path
Emitters(path) == {w \in 1..Len(workers) : path \in PathsOf(workers[w].emitted)}

\* Two roots name the same directory, or one lies beneath the other
Overlapping(r1, r2) == Abs(r1) = Abs(r2) \/ Beneath(r1, r2) \/ Beneath(r2, r1)

\* The entries under a root that pass the checks, each looked at on its own:
\* every entry a walk without any pruning reaches
IndividuallyChecked(c, root) ==
    {path \in EntriesFrom[root] : Accessible(path) /\ PassesChecks(c, root, path)}

\* The path of every entry under the root begins with the root as written
RootLeadsItsEntries(root) == \A path \in EntriesFrom[root] : BeginsWith(path, root)

\* The path contains an exclude token or begins with a default prefix
NamedByExclusion(c, path) ==
    \/ \E i \in 1..Len(c.Exclude) : Substring(c.Exclude[i], path)
    \/ \E d \in {"/proc", "/sys", "/dev", "/tmp"} : BeginsWith(path, d)

\* The sequence is made of beginnings of the given sequences, each in its
\* own order and without gaps, interleaved in some way
MergesBeginnings[s \in Seq(STRING), es \in Seq(Seq(STRING))] ==
    IF s = <<>> THEN TRUE
    ELSE \E w \in 1..Len(es) :
            /\ es[w] # <<>>
            /\ Head(es[w]) = Head(s)
            /\ MergesBeginnings[Tail(s), [es EXCEPT ![w] = Tail(es[w])]]

\* The sequence is made of the whole of the given sequences, interleaved
Merges(s, es) ==
    /\ MergesBeginnings[s, es]
    /\ Len(s) = Cardinality(UNION {{<<w, i>> : i \in 1..Len(es[w])} : w \in 1..Len(es)})

\* The paths of a list of results, in the order of the list
PathSeq(list) == [i \in 1..Len(list) |-> list[i].Path]

\* What each worker has sent so far, as paths
EmittedPaths == [w \in 1..Len(workers) |-> PathSeq(workers[w].emitted)]

\* s is the beginning of t
IsPrefix(s, t) == Len(s) <= Len(t) /\ SubSeq(t, 1, Len(s)) = s

\* The number of directory levels of an entry below a root, both taken as
\* the absolute paths they name: 0 for the root itself, 1 for the entries of
\* the root directory
LevelsBelow(root, path) ==
    LET elems(abs) == IF abs = PathSeparator THEN 0
                      ELSE Cardinality({i \in 1..Len(abs) : At(abs, i) = PathSeparator})
    IN  elems(Abs(path)) - elems(Abs(root))

\* The results worker w has submitted or is submitting
Submitted(w) ==
    PathsOf(workers[w].emitted)
        \cup (IF workers[w].pc = "send" THEN {workers[w].pending.Path} ELSE {})

-----------------------------------------------------------------------------
(* C1: with MaxResults >= 0 the collected list never holds more than      *)
(* MaxResults entries at any point of Search, and neither does the list    *)
(* Search returns, however many entries match.                             *)
C1_ResultsBounded ==
    (Searching /\ config.MaxResults >= 0) =>
        /\ Len(results) <= config.MaxResults
        /\ Len(ret.results) <= config.MaxResults

\* Search has returned a full list although the collector was handed more
C1_Witness ==
    /\ pc = "returned"
    /\ config.MaxResults = 1
    /\ Len(ret.results) = 1
    /\ Len(recvd) > 1

(* C2: when Search returns, the channel is closed and empty, the collector *)
(* has finished, and every result a worker sent is in the returned list    *)
(* unless the list was full when the collector received it.                *)
C2_ReturnsAfterDrain ==
    pc = "returned" =>
        /\ chClosed
        /\ ch = <<>>
        /\ coll.pc = "exit"
        /\ \A w \in 1..Len(workers) :
              \A i \in 1..Len(workers[w].emitted) :
                 \E k \in 1..Len(recvd) : recvd[k] = workers[w].emitted[i]
        /\ ret.results = Take(recvd, config.MaxResults)

(* C3: when at most MaxResults entries match, the set of paths Search      *)
(* returns is exactly the set of entries under the roots that pass the     *)
(* exclusion, depth, name and extension checks.                            *)
C3_ReturnsExactlyTheMatches ==
    (pc = "returned" /\ Cardinality(MatchingEntries(config)) <= config.MaxResults)
        => PathsOf(ret.results) = MatchingEntries(config)

(* C5: Search returns a nil error whatever the configuration and the       *)
(* filesystem hold: entries and roots that cannot be accessed do not make  *)
(* it fail, and when no root can be accessed it returns an empty list.     *)
C5_NeverFails ==
    pc = "returned" =>
        /\ ret.err = Nil
        /\ (\A r \in 1..Len(getSearchRoots(config)) :
                Lstat(getSearchRoots(config)[r]).err) => ret.results = <<>>

\* Search has returned from a search whose only root does not exist, its
\* worker having visited the root
C5_Witness ==
    /\ pc = "returned"
    /\ getSearchRoots(config) = <<"missing">>
    /\ config.Pattern = "*"
    /\ workers[1].visited = <<"missing">>

(* C6: New fails, returning no Searcher and starting nothing, exactly when *)
(* the config is nil or its Pattern is empty; otherwise it succeeds and    *)
(* leaves Threads positive: the logical CPU count in place of a value <= 0,*)
(* a positive value as given.                                              *)
C6_New ==
    /\ pc = "failed" =>
          /\ IsNil(given) \/ given.Pattern = ""
          /\ newErr # Nil
          /\ searcher = NoSearcher
          /\ workers = <<>> /\ coll.pc = "off" /\ wg = 0
    /\ Searching =>
          /\ ~IsNil(given) /\ given.Pattern # ""
          /\ newErr = Nil
          /\ searcher # NoSearcher
          /\ config.Threads > 0
          /\ config.Threads = IF given.Threads <= 0 THEN env.numCPU ELSE given.Threads
    /\ pc = "new" => workers = <<>> /\ coll.pc = "off"

\* New has replaced a Threads of 0 by the CPU count
C6_Witness ==
    /\ pc = "search"
    /\ given.Threads = 0
    /\ config.Threads = env.numCPU

(* C10: a directory for which the exclusion check is true is not descended *)
(* into, and neither it nor anything beneath it is submitted; a file for   *)
(* which it is true is not submitted, and the other entries of its         *)
(* directory are all visited by the time the worker finishes.              *)
C10_ExclusionPrunes ==
    \A w \in 1..Len(workers) :
       \A i \in 1..Len(workers[w].visited) :
          LET p == workers[w].visited[i] IN
          (~Lstat(p).err /\ shouldExclude(config, p)) =>
             /\ p \notin Submitted(w)
             /\ Lstat(p).info.IsDir =>
                   \A q \in Range(workers[w].visited) \cup Submitted(w) : ~Beneath(q, p)
             /\ (~Lstat(p).info.IsDir /\ workers[w].pc = "done") =>
                   \A d \in Range(workers[w].visited) :
                      (/\ ~Lstat(d).err /\ Lstat(d).info.IsDir /\ ~ReadDirNames(d).err
                       /\ \E n \in Range(ReadDirNames(d).names) : Join(d, n) = p)
                      => \A n \in Range(ReadDirNames(d).names) :
                            Join(d, n) \in Range(workers[w].visited)

\* A worker has finished after skipping an excluded directory that holds a
\* file matching the pattern, and an excluded file with entries after it
C10_Witness ==
    /\ Searching
    /\ config.Pattern = "*.go"
    /\ \E w \in 1..Len(workers) :
          /\ workers[w].pc = "done"
          /\ "a/node_modules" \in Range(workers[w].visited)
          /\ shouldExclude(config, "a/node_modules")
          /\ "a/node_modules/x.go" \notin Range(workers[w].visited)
          /\ PathsOf(workers[w].emitted) = {"a/main.go"}

(* C4: two Search runs, each on a fresh Searcher, with the same            *)
(* configuration over the same tree return the same set of paths, for any  *)
(* scheduling, any number of roots and any MaxResults.                     *)
C4_SameSetTwice ==
    (run = 2 /\ pc = "returned") => PathsOf(ret.results) = firstSet

(* C7: under fair scheduling every worker finishes its walk and Search     *)
(* returns (or New has refused the configuration): no worker stays blocked *)
(* on a full channel, whatever the roots and however many entries match.   *)
C7_SearchReturns ==
    <>(\/ pc = "failed"
       \/ /\ pc = "returned"
          /\ \A w \in 1..Len(workers) : workers[w].pc = "done")

\* A worker is blocked on the full channel while the results submitted so
\* far already exceed MaxResults plus the capacity of the channel
C7_Witness ==
    /\ Searching
    /\ config.MaxResults >= 0
    /\ Len(ch) = ChanCap
    /\ \E w \in 1..Len(workers) : workers[w].pc = "send"
    /\ Len(recvd) + Len(ch) + 1 > config.MaxResults + ChanCap
    /\ coll.pc = "recv"

(* C8: fuzzyMatch(text, pattern) is true for an empty pattern, false for a  *)
(* non-empty pattern with empty text, and otherwise true iff the characters*)
(* of pattern are a subsequence of those of text; in advanced mode the name*)
(* check accepts f iff lowercase(p) is a subsequence of lowercase(f).       *)
C8_FuzzyIsSubsequence ==
    /\ (probe.fn = "fuzzyMatch" /\ probe.called) =>
          probe.out = IF probe.pattern = <<>> THEN TRUE
                      ELSE IF probe.text = <<>> THEN FALSE
                      ELSE Subsequence(DecodeRunes[probe.pattern],
                                       DecodeRunes[probe.text])
    /\ (probe.fn = "matches" /\ probe.called) =>
          probe.out = Subsequence(Bytes(ToLower(config.Pattern)),
                                  Bytes(ToLower(Base(probe.path))))

(* C9: shouldExclude(p) is true iff p contains some element of the exclude *)
(* list as a substring or p begins with one of /proc, /sys, /dev, /tmp;    *)
(* it is false for every other path.                                       *)
C9_ShouldExcludeIff ==
    (probe.fn = "shouldExclude" /\ probe.called) =>
        probe.out = (\/ \E i \in 1..Len(config.Exclude) :
                           Substring(config.Exclude[i], probe.path)
                     \/ \E d \in {"/proc", "/sys", "/dev", "/tmp"} :
                           BeginsWith(probe.path, d))

\* shouldExclude has answered true for a path under /tmp that holds no
\* element of the exclude list
C9_Witness ==
    /\ probe.fn = "shouldExclude"
    /\ probe.called
    /\ probe.path = "/tmp/test"
    /\ config.Exclude = <<"node_modules", ".git">>
    /\ probe.out = TRUE

(* C11 (as stated): with a non-empty Extensions list an entry passes only   *)
(* if its base name has a dot and the part after the last dot equals,      *)
(* ignoring case, a listed extension, so an entry without an extension is  *)
(* rejected; with an empty list this check rejects no entry.               *)
C11_ExtensionRequired ==
    (probe.fn = "matches" /\ probe.called) =>
        /\ (Len(config.Extensions) > 0 /\ probe.out) =>
              /\ Dots(LastElement(probe.path)) # {}
              /\ \E i \in 1..Len(config.Extensions) :
                    SameIgnoringCase(AfterLastDot(LastElement(probe.path)),
                                     config.Extensions[i])
        /\ Len(config.Extensions) = 0 =>
              probe.out = PatternMatches(config, LastElement(probe.path))

(* C11 (amended): an entry passes iff it passes the pattern and, when the  *)
(* Extensions list is non-empty, its extension (the part of the base name  *)
(* after the last dot, empty when there is no dot) equals, ignoring case,  *)
(* a listed extension: a name without a dot is rejected unless the empty   *)
(* string is listed.                                                       *)
C11_ExtensionFilter ==
    (probe.fn = "matches" /\ probe.called) =>
        probe.out =
            /\ PatternMatches(config, LastElement(probe.path))
            /\ \/ Len(config.Extensions) = 0
               \/ \E i \in 1..Len(config.Extensions) :
                     SameIgnoringCase(ExtensionOf(LastElement(probe.path)),
                                      config.Extensions[i])

\* Lib.GO has passed with Extensions = [go, rs]
C11_Witness ==
    /\ probe.fn = "matches"
    /\ probe.called
    /\ config.Pattern = "*"
    /\ config.Extensions = <<"go", "rs">>
    /\ probe.path = "Lib.GO"
    /\ probe.out = TRUE

(* C12: in non-advanced mode the name check accepts base name f for pattern *)
(* p iff the glob p matches f or the glob lowercase(p) matches lowercase(f);*)
(* a name that matches neither way is rejected.                            *)
C12_GlobThenIgnoringCase ==
    (probe.fn = "matches" /\ probe.called /\ ~config.Advanced
        /\ config.Extensions = <<>>) =>
        probe.out =
            \/ Match(config.Pattern, LastElement(probe.path)).matched
            \/ Match(ToLower(config.Pattern),
                     ToLower(LastElement(probe.path))).matched

\* Lib.GO has been accepted for *.go, which matches it only in lower case
C12_Witness ==
    /\ probe.fn = "matches"
    /\ probe.called
    /\ config.Pattern = "*.go"
    /\ config.Extensions = <<>>
    /\ probe.path = "Lib.GO"
    /\ ~Match(config.Pattern, "Lib.GO").matched
    /\ probe.out = TRUE

(* C13: with Depth = d > 0 an entry with more than d separators in its     *)
(* path below its worker's root is never submitted and a directory with    *)
(* more than d is not descended; with Depth = 0 a worker that has finished *)
(* has submitted every accessible entry under its root that passes the     *)
(* exclusion and name checks, whatever its depth.                          *)
C13_DepthLimit ==
    \A w \in 1..Len(workers) :
       LET root == workers[w].root IN
       /\ config.Depth > 0 =>
             /\ \A p \in Submitted(w) : SeparatorsBelow(root, p) <= config.Depth
             /\ \A p \in Range(workers[w].visited) :
                   (/\ ~Lstat(p).err /\ Lstat(p).info.IsDir
                    /\ SeparatorsBelow(root, p) > config.Depth)
                   => \A q \in Range(workers[w].visited) \cup Submitted(w) :
                         ~Beneath(q, p)
       /\ (config.Depth = 0 /\ workers[w].pc = "done") =>
             PathsOf(workers[w].emitted) =
                {p \in EntriesFrom[root] :
                    Accessible(p) /\ ~shouldExclude(config, p) /\ matches(config, p)}

\* With Depth = 1 under /w a worker has finished having submitted /w/a and
\* visited /w/a/node_modules without descending into it
C13_Witness ==
    /\ Searching
    /\ config.Depth = 1
    /\ \E w \in 1..Len(workers) :
          /\ workers[w].pc = "done"
          /\ workers[w].root = "/w"
          /\ "/w/a" \in PathsOf(workers[w].emitted)
          /\ "/w/a/node_modules" \in Range(workers[w].visited)
          /\ "/w/a/node_modules/x.go" \notin Range(workers[w].visited)

(* C14: two searches over the same tree whose configurations differ only   *)
(* in Size, Mtime, Content or FollowLinks return the same set of results.  *)
C14_IgnoredFieldsSameSet ==
    (/\ run = 2
     /\ pc = "returned"
     /\ config # given
     /\ \E f \in FieldValues : WithFields(given, f) = config)
        => PathsOf(ret.results) = firstSet

(* C15: getSearchRoots returns the Include list unchanged (same elements,  *)
(* same order, duplicates and missing roots kept) when it is non-empty,    *)
(* and otherwise a non-empty list whose first element is the root /.       *)
C15_RootsVerbatim ==
    (probe.fn = "getSearchRoots" /\ probe.called) =>
        /\ Len(config.Include) > 0 => probe.out = config.Include
        /\ Len(config.Include) = 0 => (Len(probe.out) > 0 /\ probe.out[1] = "/")

\* A root that does not exist and a root given twice have been returned as
\* given
C15_Witness ==
    /\ probe.fn = "getSearchRoots"
    /\ probe.called
    /\ config.Include \in {<<"missing", "a">>, <<"a", "a">>}
    /\ probe.out = config.Include

(* C16: when done fires while a worker is blocked submitting on the full   *)
(* channel, the worker leaves its select without delivering the result and *)
(* with nothing left to walk, the workers signal completion once each, and *)
(* the worker finishes and Search returns even if the collector never      *)
(* drains the channel.                                                     *)
C16_CancelReleasesWorker ==
    /\ [][\A w \in 1..Len(workers) :
            (/\ Len(workers') = Len(workers)
             /\ workers[w].pc = "send"
             /\ workers'[w].pc # "send"
             /\ ch' = ch)
            => /\ done
               /\ workers'[w].emitted = workers[w].emitted
               /\ workers'[w].todo = <<>>
               /\ workers'[w].visited = workers[w].visited]_vars
    /\ [](wg = Cardinality({w \in 1..Len(workers) : workers[w].pc # "done"}))
    /\ \A w \in 1..2 :
          [](( /\ done
               /\ w \in 1..Len(workers)
               /\ workers[w].pc = "send"
               /\ Len(ch) = ChanCap)
             => <>(w \in 1..Len(workers) /\ workers[w].pc = "done"))
    /\ [](done => <>(pc = "returned"))

\* Search has returned after done fired, the channel still full and the
\* collector having received nothing, with a worker that finished without
\* delivering the last entry it visited
C16_Witness ==
    /\ done
    /\ pc = "returned"
    /\ Len(ch) = ChanCap
    /\ recvd = <<>>
    /\ \E w \in 1..Len(workers) :
          LET v == workers[w].visited IN
          /\ workers[w].pc = "done"
          /\ v # <<>>
          /\ matches(config, v[Len(v)])
          /\ ~shouldExclude(config, v[Len(v)])
          /\ v[Len(v)] \notin PathsOf(workers[w].emitted)

(* C17: the search configuration runSearch builds takes exclude dirs,       *)
(* include dirs, max depth, follow-symlinks, thread count and max results  *)
(* from the loaded configuration file when the flag is not given, and from *)
(* the flag when it is given.                                              *)
C17_FlagsMergedWithFile ==
    (/\ probe.fn = "runSearch"
     /\ probe.called
     /\ probe.pattern # ""
     /\ probe.file # NoFile) =>
        LET c == probe.out.config
            built == [exclude |-> c.Exclude, include |-> c.Include, depth |-> c.Depth,
                      followLinks |-> c.FollowLinks, threads |-> c.Threads,
                      maxResults |-> c.MaxResults]
        IN  \A n \in MergedFlags :
               built[FlagField(n)] = IF n \in probe.changed
                                     THEN FlagsGiven[FlagField(n)]
                                     ELSE probe.cfg[FlagField(n)]

(* C18: an entry that cannot be accessed does not stop its worker, which   *)
(* has visited every entry of every directory it listed by the time it     *)
(* finishes; the worker of a root that does not exist submits nothing; and *)
(* every worker that finishes has submitted all the matches under its root.*)
C18_ErrorsDoNotStopTheWalk ==
    \A w \in 1..Len(workers) :
       LET root == workers[w].root IN
       /\ Lstat(root).err => Submitted(w) = {}
       /\ workers[w].pc = "done" =>
             /\ \A d \in Range(workers[w].visited) :
                   (/\ ~Lstat(d).err /\ Lstat(d).info.IsDir /\ ~ReadDirNames(d).err
                    /\ ~shouldExclude(config, d))
                   => \A n \in Range(ReadDirNames(d).names) :
                         Join(d, n) \in Range(workers[w].visited)
             /\ PathsOf(workers[w].emitted) =
                   {p \in EntriesFrom[root] :
                       Accessible(p) /\ PassesChecks(config, root, p)}

\* Both workers have finished: the one of the missing root with nothing
\* submitted, the other having gone past the entry whose lstat fails to
\* the entries after it, and having submitted b/Lib.GO and b/loop
C18_Witness ==
    /\ Searching
    /\ config.Include = <<"missing", "b">>
    /\ config.Pattern = "*"
    /\ Len(workers) = 2
    /\ workers[1].pc = "done"
    /\ workers[1].visited = <<"missing">>
    /\ workers[1].emitted = <<>>
    /\ workers[2].pc = "done"
    /\ workers[2].visited = <<"b", "b/Lib.GO", "b/gone.go", "b/loop", "b/priv">>
    /\ PathsOf(workers[2].emitted) = {"b", "b/Lib.GO", "b/loop"}

(* C19: every append to the result list and its length check are made by   *)
(* the collector while it holds the mutex, and no other task reads or      *)
(* writes the list while the collector can still append: in particular     *)
(* Search does not read the list it returns while the collector can still  *)
(* append to it.                                                           *)
C19_ListOwnedByCollector ==
    /\ [](coll.pc = "append" => mu)
    /\ [][(pc = "closed" /\ pc' = "returned") => ~CollectorCanStillAppend]_vars

(* C20: once the list holds MaxResults entries no step changes it; the     *)
(* list is always the first results the collector received, nothing being  *)
(* kept elsewhere; and the collector goes on receiving until the channel   *)
(* is closed and empty, when the list is the first MaxResults results      *)
(* received.                                                               *)
C20_ExcessDiscarded ==
    /\ [][(Searching /\ Len(results) = config.MaxResults) => results' = results]_vars
    /\ [](Searching => results = SubSeq(recvd, 1, Len(results)))
    /\ [](coll.pc = "exit" =>
            /\ chClosed
            /\ ch = <<>>
            /\ results = Take(recvd, config.MaxResults))
    /\ [](Searching => <>(coll.pc = "exit"))

\* The collector has finished on the closed, empty channel having received
\* more results than the one the list holds
C20_Witness ==
    /\ Searching
    /\ config.MaxResults = 1
    /\ coll.pc = "exit"
    /\ ch = <<>>
    /\ Len(results) = 1
    /\ Len(recvd) > 1 + ChanCap

(* C21: within one Search call the channel is closed exactly once, by the  *)
(* step that follows s.wg.Wait() and only when every root's worker has     *)
(* signalled completion; no worker is at its send while the channel is     *)
(* closed, and Search has not returned while a worker is unfinished.       *)
C21_ClosedOnceAfterWorkers ==
    /\ [](chClosed =>
            /\ pc \in {"closed", "returned"}
            /\ Len(workers) = Len(getSearchRoots(config))
            /\ wg = 0
            /\ \A w \in 1..Len(workers) : workers[w].pc = "done")
    /\ [](pc \in {"closed", "returned"} => chClosed)
    /\ [][chClosed' # chClosed =>
            /\ ~chClosed
            /\ pc = "spawn" /\ pc' = "closed"
            /\ \A w \in 1..Len(workers) : workers[w].pc = "done"]_vars

\* Search has returned from a search over two roots, the channel closed
\* behind two workers that each submitted a result
C21_Witness ==
    /\ pc = "returned"
    /\ chClosed
    /\ Len(workers) = 2
    /\ \A w \in 1..Len(workers) :
          workers[w].pc = "done" /\ workers[w].emitted # <<>>


C23_ConfigReadOnly ==
    /\ [](Searching => config = [given EXCEPT !.Threads = config.Threads])
    /\ [][config' # config =>
            /\ pc = "new" /\ pc' = "search"
            /\ config' = [config EXCEPT !.Threads = config'.Threads]]_vars

\* Search has returned a result from a configuration whose Threads New
\* replaced
C23_Witness ==
    /\ pc = "returned"
    /\ given.Threads <= 0
    /\ config.Threads # given.Threads
    /\ coll.pc = "exit"
    /\ ret.results # <<>>


(* C24: a worker visits no entry twice and sends no path twice; a path     *)
(* occurs among the results received, in flight and returned as many times *)
(* as there are workers that sent it, and two workers send the same path   *)
(* only when their roots are the same directory or one is beneath the      *)
(* other.                                                                  *)
C24_VisitedOncePerWorker ==
    /\ \A w \in 1..Len(workers) :
          /\ \A i \in 1..Len(workers[w].visited) : \A j \in 1..Len(workers[w].visited) :
                i < j => Abs(workers[w].visited[i]) # Abs(workers[w].visited[j])
          /\ \A i \in 1..Len(workers[w].emitted) : \A j \in 1..Len(workers[w].emitted) :
                i < j => workers[w].emitted[i].Path # workers[w].emitted[j].Path
          /\ workers[w].pc = "send" =>
                workers[w].pending.Path \notin PathsOf(workers[w].emitted)
    /\ \A p \in PathsOf(recvd) \cup PathsOf(ch) \cup PathsOf(results) \cup PathsOf(ret.results) :
          /\ Occurrences(p, recvd) + Occurrences(p, ch) = Cardinality(Emitters(p))
          /\ Occurrences(p, results) <= Cardinality(Emitters(p))
          /\ Occurrences(p, ret.results) <= Cardinality(Emitters(p))
    /\ \A w1 \in 1..Len(workers) : \A w2 \in 1..Len(workers) :
          (w1 # w2 /\ PathsOf(workers[w1].emitted) \cap PathsOf(workers[w2].emitted) # {})
              => Overlapping(workers[w1].root, workers[w2].root)

\* Search has returned the same path twice, sent once by the worker of a
\* root and once by the worker of a directory beneath that root
C24_Witness ==
    /\ pc = "returned"
    /\ Len(workers) = 2
    /\ workers[1].root # workers[2].root
    /\ Occurrences("a/node_modules/x.go", ret.results) = 2
    /\ Emitters("a/node_modules/x.go") = {1, 2}
    /\ \A w \in 1..2 : Occurrences("a/node_modules/x.go", workers[w].emitted) = 1


(* C25: with MaxResults 0 or negative the list stays empty and Search      *)
(* returns an empty list however many entries match, and under fair        *)
(* scheduling Search does return and the collector ends having received    *)
(* every result that was sent.                                             *)
C25_NoResultsWithoutLimit ==
    /\ []((Searching /\ config.MaxResults <= 0) =>
             results = <<>> /\ ret.results = <<>>)
    /\ <>(/\ pc = "returned"
          /\ ret.results = <<>>
          /\ coll.pc = "exit"
          /\ \A w \in 1..Len(workers) :
                /\ workers[w].pc = "done"
                /\ \A p \in PathsOf(workers[w].emitted) :
                      Occurrences(p, recvd) = Cardinality(Emitters(p)))

\* Search has returned an empty list from a search with MaxResults 0 in
\* which five entries matched; the collector has received all five
C25_Witness ==
    /\ pc = "returned"
    /\ config.MaxResults = 0
    /\ ret.results = <<>>
    /\ coll.pc = "exit"
    /\ Len(recvd) = 5
    /\ Len(recvd) > ChanCap


(* C26: a Searcher serves one Search. Once the first call has returned the *)
(* channel is closed and stays closed, and a second call on the same       *)
(* Searcher never gets past its close to return: it can only end in a      *)
(* panic, from a worker's send or from the close. The first call, on the   *)
(* Searcher as New made it, never panics.                                  *)
C26_SingleUse ==
    /\ [](run = 1 => pc # "panic")
    /\ [](run = 2 => chClosed /\ pc \in {"search", "spawn", "panic"})
    /\ [][(pc' = "panic" /\ pc # "panic") =>
            /\ run = 2 /\ chClosed
            /\ \/ \E w \in 1..Len(workers) : workers[w].pc = "send"
               \/ pc = "spawn" /\ wg = 0]_vars
    /\ [][chClosed => chClosed']_vars

\* The second Search on the Searcher has ended in the panic of a worker
\* sending its first match on the closed channel
C26_Witness ==
    /\ run = 2
    /\ pc = "panic"
    /\ chClosed
    /\ \E w \in 1..Len(workers) :
          workers[w].pc = "panic" /\ workers[w].pending.Path = "a"


(* C27, as stated: for every tree and configuration the set of entries a   *)
(* worker has sent when it finishes, pruning excluded and over-depth       *)
(* directories, is the set of the entries under its root that pass the     *)
(* exclusion, depth, name and extension checks one by one.                 *)
C27_PruningEqualsIndividualChecks ==
    \A w \in 1..Len(workers) :
       workers[w].pc = "done" =>
          PathsOf(workers[w].emitted) = IndividuallyChecked(config, workers[w].root)

(* C27, amended: pruning only ever removes entries (what a worker sends is *)
(* among the entries that pass the checks one by one), and it removes none *)
(* when the path of every entry under the root begins with the root as     *)
(* written: the worker then sends exactly the entries that pass the checks *)
(* one by one.                                                             *)
C27_PruningIsOptimisation ==
    \A w \in 1..Len(workers) :
       /\ PathsOf(workers[w].emitted) \subseteq IndividuallyChecked(config, workers[w].root)
       /\ (workers[w].pc = "done" /\ RootLeadsItsEntries(workers[w].root)) =>
             PathsOf(workers[w].emitted) = IndividuallyChecked(config, workers[w].root)

\* A worker has finished after skipping the excluded directory
\* a/node_modules, which holds a file of the wanted name, and has sent the
\* one entry that passes the checks
C27_Witness ==
    /\ Searching
    /\ config.Pattern = "*.go"
    /\ config.Exclude = <<"node_modules">>
    /\ \E w \in 1..Len(workers) :
          /\ workers[w].pc = "done"
          /\ workers[w].root = "a/"
          /\ "a/node_modules" \in Range(workers[w].visited)
          /\ "a/node_modules/x.go" \notin Range(workers[w].visited)
          /\ matches(config, "a/node_modules/x.go")
          /\ PathsOf(workers[w].emitted) = {"a/main.go"}


(* C28: exclusion overrides inclusion. The worker of a root whose own path *)
(* contains an exclude token or begins with /proc, /sys, /dev or /tmp      *)
(* visits the root and nothing else, and sends no result.                  *)
C28_ExcludedRootYieldsNothing ==
    \A w \in 1..Len(workers) :
       NamedByExclusion(config, workers[w].root) =>
          /\ workers[w].emitted = <<>>
          /\ workers[w].pc # "send"
          /\ Range(workers[w].visited) \subseteq {workers[w].root}

\* The worker of the included root /tmp has finished: it has visited /tmp
\* alone and sent nothing, although /tmp/t.go has the wanted name
C28_Witness ==
    /\ pc = "returned"
    /\ config.Include = <<"/tmp">>
    /\ config.Exclude = <<>>
    /\ matches(config, "/tmp/t.go")
    /\ workers[1].pc = "done"
    /\ workers[1].visited = <<"/tmp">>
    /\ workers[1].emitted = <<>>
    /\ ret.results = <<>>


(* C29: the channel hands the collector the results of each worker in the  *)
(* order the worker sent them: what the collector has received, followed   *)
(* by what is in the channel, is an interleaving of what the workers have  *)
(* sent. The list kept and the list returned are beginnings of what the    *)
(* collector received, so the results of one worker stand in them in the   *)
(* order it sent them, and no result received after a dropped one is kept. *)
C29_OrderKept ==
    /\ Merges(PathSeq(recvd \o ch), EmittedPaths)
    /\ IsPrefix(results, recvd)
    /\ IsPrefix(ret.results, recvd)
    /\ MergesBeginnings[PathSeq(ret.results), EmittedPaths]

\* Search has returned a full list of two results or more from two workers
\* that each sent several, the collector having received and dropped one
\* more
C29_Witness ==
    /\ pc = "returned"
    /\ coll.pc = "exit"
    /\ config.MaxResults >= 2
    /\ Len(ret.results) = config.MaxResults
    /\ Len(recvd) > Len(ret.results)
    /\ Len(workers) = 2
    /\ \A w \in 1..Len(workers) : Len(workers[w].emitted) >= 2
    /\ ret.results[1].Path = "b"
    /\ ret.results[2].Path = "a"


(* C30: with Depth = d > 0 an entry k directory levels below its worker's  *)
(* root (the entries of the root directory at level 1) is submitted only   *)
(* if k <= d, whether the root is written with a trailing separator or     *)
(* without one.                                                            *)
C30_DepthCountsLevels ==
    \A w \in 1..Len(workers) :
       config.Depth > 0 =>
          \A p \in Submitted(w) : LevelsBelow(workers[w].root, p) <= config.Depth

====
